---- MODULE Spec2Model ----
(***************************************************************************)
(* Verification model of the MailClient backend (src-tauri).               *)
(*                                                                         *)
(*  SpecRegistry : the account registry and command dispatch of lib.rs     *)
(*                 (AppState, connect, disconnect, the IMAP session        *)
(*                 commands, send_email, the JMAP registry) over the       *)
(*                 ImapClient / JmapClient sessions.                       *)
(*  SpecCache    : the per-account SQLite cache of cache/mod.rs.           *)
(*  SpecSync     : the sync_state table of the cache on its own.           *)
(*  SpecFetch    : the pagination arithmetic of ImapClient::fetch_headers. *)
(***************************************************************************)
EXTENDS Integers, Sequences, FiniteSets, TLC

\* ---------------------------------------------------------------------
\* Bounds of the model
\* ---------------------------------------------------------------------
MaxTasks == 2
Tasks == 1..MaxTasks

\* account ids: IMAP accounts are keyed by the username, JMAP accounts by
\* "jmap_" + username (lib.rs:73, lib.rs:930)
ImapAccounts == {"alice"}
JmapAccounts == {"jmap_alice"}
AccountIds == ImapAccounts \cup JmapAccounts
Folders == {"INBOX", "Archive"}

VARIABLES
    imap_clients,   \* AppState.imap_clients : account id -> the registered ImapClient
    jmap_clients,   \* AppState.jmap_clients : account id -> whether a JmapClient is registered
    imap_lock,      \* the tokio Mutex around imap_clients: holder and FIFO waiters
    jmap_lock,      \* the tokio Mutex around jmap_clients
    task,           \* the command each task is running and where it is
    pending,        \* session commands received and not yet returned, in order of receipt
    stale,          \* per account: progress since a transport failure of its registered session
    emails,         \* cache table emails
    attachments,    \* cache table attachments
    email_categories, \* cache table email_categories
    categories,     \* cache table categories
    sync_state,     \* cache table sync_state
    foreign_keys,   \* whether the SQLite build enforces foreign keys
    ai_job,         \* the categorize_email_ai / categorize_emails_batch call in flight
    page,           \* the last fetch_headers pagination computed
    net_op,         \* a network operation awaited on a channel and the time it has waited
    clear_pc,       \* the statement an EmailCache::clear call in flight has reached
    imap_server,    \* the IMAP server of a session: MOVE advertised or not, where each message is, the last move
    jmap_sieve,     \* the Sieve scripts of a JMAP account on the server and the last Sieve command
    jmap_session,   \* JmapClient after connect: the discovery chain walked, the api_url host, the hosts trusted for redirects
    tool_call,      \* an execute_mark_as_read tool call: where it is, the answers of its add_flags calls, its ToolResult
    cloud_auth,     \* AUTH_STATE, the token file on disk and the answer of the last cloud command
    sieve_rt,       \* a list of rules, the script rules_to_sieve_script made of it, the rules parse_sieve_script read back
    seq_call,       \* a call of uids_to_sequence: the build, the uids given, the sequence set returned
    retention,      \* the clock, cached_at and date_timestamp of the emails rows, and the last cleanup_old_emails call
    send_call,      \* a send_email call: the Sent folder names the server has, the probing of append_to_sent, the copies stored, the result
    utf7,           \* a mailbox name on the wire, its decoding by list_folders, the wire name select_folder sends for it
    header,         \* a header value made of tokens and what decode_rfc2047 returns for it
    vault,          \* the synced blob kept by the server and the result of the last decrypt
    reply,          \* a model response and what extract_json takes from it
    mbox,           \* the messages of the selected folder on the server and the last delete call
    jmap_sent,      \* per message: its copy in the JMAP Sent mailbox, its submission and what send_email returned
    jmap_bulk,      \* the JMAP bulk operation under way: its list, the emails it has changed, its result
    config          \* accounts.json and the two writers of it

regVars == <<imap_clients, jmap_clients, imap_lock, jmap_lock, task, pending, stale>>
cacheVars == <<emails, attachments, email_categories, categories, sync_state,
               foreign_keys, ai_job>>
vars == <<imap_clients, jmap_clients, imap_lock, jmap_lock, task, pending, stale,
          emails, attachments, email_categories, categories, sync_state,
          foreign_keys, ai_job, page, net_op, clear_pc, imap_server, jmap_sieve, jmap_session, tool_call, cloud_auth, sieve_rt, seq_call, retention, send_call, utf7, header, vault, reply, mbox, jmap_sent, jmap_bulk, config>>

\* ---------------------------------------------------------------------
\* Registry: helpers
\* ---------------------------------------------------------------------
IsJmap(a) == a \in JmapAccounts

\* an entry of imap_clients: absent, or an ImapClient with its logged-in
\* session (the mailbox the session has selected, whether its transport
\* failed, whether an exchange on it was abandoned half-way)
NoClient == [present |-> FALSE, selected |-> "none", broken |-> FALSE, desync |-> FALSE]
NewClient == [present |-> TRUE, selected |-> "none", broken |-> FALSE, desync |-> FALSE]

IdleTask == [cmd |-> "none", account |-> "-", folder |-> "-", pc |-> "idle",
             script |-> <<>>, todo |-> {}, res |-> "-", late |-> FALSE]

NotStale == [lvl |-> 0, by |-> 0]

FreeLock == [holder |-> 0, waiters |-> <<>>]

\* (variant: the data-plane methods send no SELECT)
WireScriptNoSelect(cmd) ==
    IF cmd = "list_folders" THEN <<"LIST">>
    ELSE IF cmd = "select_folder" THEN <<"SELECT">>
    ELSE IF cmd \in {"delete_email", "bulk_delete"} THEN <<"UID STORE", "EXPUNGE">>
    ELSE <<"UID STORE">>

\* the IMAP commands each ImapClient method sends on the session, in order
WireScript(cmd) ==
    CASE cmd = "list_folders"      -> <<"LIST">>
      [] cmd = "select_folder"     -> <<"SELECT">>
      [] cmd = "fetch_headers"     -> <<"SELECT", "FETCH">>
      [] cmd = "fetch_email"       -> <<"SELECT", "UID FETCH">>
      [] cmd = "get_attachment"    -> <<"SELECT", "UID FETCH">>
      [] cmd = "mark_read"         -> <<"SELECT", "UID STORE">>
      [] cmd = "delete_email"      -> <<"SELECT", "UID STORE", "EXPUNGE">>
      [] cmd = "move_email"        -> <<"SELECT", "UID MOVE">>
      [] cmd = "add_flags"         -> <<"SELECT", "UID STORE">>
      [] cmd = "remove_flags"      -> <<"SELECT", "UID STORE">>
      [] cmd = "set_flags"         -> <<"SELECT", "UID STORE">>
      [] cmd = "bulk_delete"       -> <<"SELECT", "UID STORE", "EXPUNGE">>
      [] cmd = "bulk_move"         -> <<"SELECT", "UID MOVE">>
      [] cmd = "bulk_add_flags"    -> <<"SELECT", "UID STORE">>
      [] cmd = "bulk_remove_flags" -> <<"SELECT", "UID STORE">>
      [] OTHER                     -> <<>>

\* the ImapClient methods the commands of lib.rs run on the registered
\* session (download_attachment runs get_attachment, mark_flagged runs
\* add_flags, unmark_flagged and mark_unread run remove_flags, bulk_mark_read
\* and bulk_mark_flagged run bulk_add_flags, bulk_mark_unread runs
\* bulk_remove_flags); set_flags has no command
SessionCommands == {"list_folders", "select_folder", "fetch_headers", "fetch_email",
                    "get_attachment", "mark_read", "delete_email", "move_email",
                    "add_flags", "remove_flags", "bulk_delete", "bulk_move",
                    "bulk_add_flags", "bulk_remove_flags"}
BulkCommands == {"bulk_delete", "bulk_move", "bulk_add_flags", "bulk_remove_flags"}
\* the data-plane methods of ImapClient
DataPlaneMethods == (SessionCommands \cup {"set_flags"}) \ {"list_folders", "select_folder"}

\* the IMAP commands that act on the selected mailbox
DataPlaneWire == {"FETCH", "UID FETCH", "UID STORE", "UID MOVE", "EXPUNGE"}

\* the names probed by append_to_sent
SentFolders == <<"Sent", "Gesendet", "INBOX.Sent", "INBOX.Gesendet", "Sent Items", "Sent Messages">>

\* tokio's Mutex is fair: lock() callers are served in the order they called
Enqueue(lock, t) == [lock EXCEPT !.waiters = Append(@, t)]
\* (variant: an unfair mutex, any waiter may get the free lock)
CanAcquireUnfair(lock, t) ==
    lock.holder = 0 /\ \E i \in 1..Len(lock.waiters) : lock.waiters[i] = t
CanAcquire(lock, t) == lock.holder = 0 /\ lock.waiters # <<>> /\ Head(lock.waiters) = t
Without(seq, t) == SelectSeq(seq, LAMBDA x : x # t)
\* the guard is taken ...
Take(lock, t) == [holder |-> t, waiters |-> Without(lock.waiters, t)]
\* ... or taken and dropped again before the handler next suspends
TakeAndDrop(lock, t) == [holder |-> 0, waiters |-> Without(lock.waiters, t)]
Drop(lock) == [lock EXCEPT !.holder = 0]

\* commands are handed to the tasks in a fixed order of the idle tasks
\* (tasks are interchangeable)
NextIdle(t) == task[t].pc = "idle" /\ \A u \in Tasks : u < t => task[u].pc # "idle"

\* the tasks after task t has sent the first command of its exchange and
\* become rec: a command for the same account that was received before t's
\* and has not returned is marked late
Earlier(t) == {u \in Tasks : \E i, j \in 1..Len(pending) :
                  i < j /\ pending[i] = u /\ pending[j] = t /\ task[u].account = task[t].account}
StartExchange(t, rec) ==
    [u \in Tasks |-> IF u = t THEN rec
                     ELSE IF u \in Earlier(t) THEN [task[u] EXCEPT !.late = TRUE]
                     ELSE task[u]]

\* stale[a].lvl = 1: an operation on a's registered session failed with a
\* transport error (by = the first command for a received after that, while it
\* runs); lvl = 2: that command has returned as well
StaleOnDispatch(t, a) ==
    IF a \in ImapAccounts /\ stale[a].lvl = 1 /\ stale[a].by = 0
    THEN [stale EXCEPT ![a].by = t] ELSE stale
StaleOnReturn(t, transport) ==
    [a \in ImapAccounts |->
        IF a # task[t].account THEN stale[a]
        ELSE IF stale[a].lvl = 1 /\ stale[a].by = t THEN [lvl |-> 2, by |-> 0]
        ELSE IF stale[a].lvl = 0 /\ transport THEN [lvl |-> 1, by |-> 0]
        ELSE stale[a]]

WireResponses == {"ok", "no", "transport"}

\* what the server answers to a command sent on a session: a session whose
\* transport has failed answers nothing any more
Responses(client) == IF client.broken THEN {"transport"} ELSE WireResponses

\* the session after an IMAP command got its response
ImapEffect(client, wire, folder, resp) ==
    IF resp = "transport" THEN [client EXCEPT !.broken = TRUE]
    ELSE IF wire = "SELECT"
         THEN [client EXCEPT !.selected = IF resp = "ok" THEN folder ELSE "none"]
         ELSE client

\* ---------------------------------------------------------------------
\* Registry: connect / disconnect (lib.rs:71-106, imap/client.rs:93-135)
\* ---------------------------------------------------------------------
\* connect is received: ImapClient::new(), then client.connect(account).await
connect(t, a) ==
    /\ NextIdle(t)
    /\ a \in ImapAccounts
    /\ task' = [task EXCEPT ![t] = [IdleTask EXCEPT !.cmd = "connect", !.account = a,
                                                     !.pc = "login"]]
    /\ UNCHANGED <<imap_clients, jmap_clients, imap_lock, jmap_lock, pending, stale>>

\* TCP connect, TLS handshake and LOGIN end: on failure connect returns the
\* error, on success the task owns a logged-in session and calls
\* imap_clients.lock()
ConnectLoginEnd(t, ok) ==
    /\ task[t].pc = "login" /\ task[t].cmd = "connect"
    /\ IF ok
       THEN /\ task' = [task EXCEPT ![t].pc = "wait"]
            /\ imap_lock' = Enqueue(imap_lock, t)
       ELSE /\ task' = [task EXCEPT ![t] = IdleTask]
            /\ UNCHANGED imap_lock
    /\ UNCHANGED <<imap_clients, jmap_clients, jmap_lock, pending, stale>>

\* clients.insert(account_id, client): the new client takes the entry; the
\* client that was registered for the account is dropped, which closes its
\* connection
RegisterImap(t) ==
    /\ task[t].pc = "wait" /\ task[t].cmd = "connect"
    /\ CanAcquire(imap_lock, t)
    /\ imap_clients' = [imap_clients EXCEPT ![task[t].account] = NewClient]
    /\ stale' = [stale EXCEPT ![task[t].account] = NotStale]
    /\ imap_lock' = TakeAndDrop(imap_lock, t)
    /\ task' = [task EXCEPT ![t] = IdleTask]
    /\ UNCHANGED <<jmap_clients, jmap_lock, pending>>

\* disconnect is received: imap_clients.lock().await
disconnect(t, a) ==
    /\ NextIdle(t)
    /\ a \in ImapAccounts
    /\ task' = [task EXCEPT ![t] = [IdleTask EXCEPT !.cmd = "disconnect", !.account = a,
                                                     !.pc = "wait"]]
    /\ imap_lock' = Enqueue(imap_lock, t)
    /\ UNCHANGED <<imap_clients, jmap_clients, jmap_lock, pending, stale>>

\* (variant: the entry is left in the map)
RemoveSkipped(clients, a) == clients

\* the IMAP map after clients.remove(account_id)
Remove(clients, a) == [clients EXCEPT ![a] = NoClient]

\* clients.remove(account_id); a removed client sends LOGOUT while the
\* registry guard is still held
DisconnectRemove(t) ==
    /\ task[t].pc = "wait" /\ task[t].cmd = "disconnect"
    /\ CanAcquire(imap_lock, t)
    /\ LET a == task[t].account
       IN IF ~imap_clients[a].present
          THEN /\ imap_lock' = TakeAndDrop(imap_lock, t)
               /\ task' = [task EXCEPT ![t] = IdleTask]
               /\ UNCHANGED <<imap_clients, stale>>
          ELSE /\ imap_lock' = Take(imap_lock, t)
               /\ imap_clients' = Remove(imap_clients, a)
               /\ stale' = [stale EXCEPT ![a] = NotStale]
               /\ task' = [task EXCEPT ![t].pc = "net", ![t].script = <<"LOGOUT">>]
    /\ UNCHANGED <<jmap_clients, jmap_lock, pending>>

\* logout() ends; its result is ignored and the session is dropped
DisconnectLogoutEnd(t) ==
    /\ task[t].pc = "net" /\ task[t].cmd = "disconnect"
    /\ imap_lock' = Drop(imap_lock)
    /\ task' = [task EXCEPT ![t] = IdleTask]
    /\ UNCHANGED <<imap_clients, jmap_clients, jmap_lock, pending, stale>>

\* disconnect_all is received: imap_clients.lock().await
disconnect_all(t) ==
    /\ NextIdle(t)
    /\ task' = [task EXCEPT ![t] = [IdleTask EXCEPT !.cmd = "disconnect_all", !.pc = "wait"]]
    /\ imap_lock' = Enqueue(imap_lock, t)
    /\ UNCHANGED <<imap_clients, jmap_clients, jmap_lock, pending, stale>>

\* clients.drain(): the IMAP map is emptied and the drained clients are
\* logged out one after another, in the map's iteration order
DisconnectAllDrain(t) ==
    /\ task[t].pc = "wait" /\ task[t].cmd = "disconnect_all"
    /\ CanAcquire(imap_lock, t)
    /\ LET drained == {a \in ImapAccounts : imap_clients[a].present}
       IN /\ imap_clients' = [a \in ImapAccounts |-> NoClient]
          /\ stale' = [a \in ImapAccounts |-> NotStale]
          /\ IF drained = {}
             THEN /\ imap_lock' = TakeAndDrop(imap_lock, t)
                  /\ task' = [task EXCEPT ![t] = IdleTask]
             ELSE \E a \in drained :
                  /\ imap_lock' = Take(imap_lock, t)
                  /\ task' = [task EXCEPT ![t].pc = "net", ![t].account = a,
                                          ![t].script = <<"LOGOUT">>,
                                          ![t].todo = drained \ {a}]
    /\ UNCHANGED <<jmap_clients, jmap_lock, pending>>

\* one logout() ends (let _ = ...): the next drained client is logged out, or
\* the guard is dropped
DisconnectAllLogoutEnd(t) ==
    /\ task[t].pc = "net" /\ task[t].cmd = "disconnect_all"
    /\ IF task[t].todo = {}
       THEN /\ imap_lock' = Drop(imap_lock)
            /\ task' = [task EXCEPT ![t] = IdleTask]
       ELSE \E a \in task[t].todo :
            /\ task' = [task EXCEPT ![t].account = a, ![t].todo = @ \ {a}]
            /\ UNCHANGED imap_lock
    /\ UNCHANGED <<imap_clients, jmap_clients, jmap_lock, pending, stale>>

\* ---------------------------------------------------------------------
\* Registry: account status (lib.rs:137-186)
\* ---------------------------------------------------------------------
get_account_status(t, a) ==
    /\ NextIdle(t)
    /\ a \in AccountIds
    /\ task' = [task EXCEPT ![t] = [IdleTask EXCEPT !.cmd = "get_account_status",
                                                     !.account = a, !.pc = "wait"]]
    /\ IF IsJmap(a)
       THEN imap_lock' = imap_lock /\ jmap_lock' = Enqueue(jmap_lock, t)
       ELSE imap_lock' = Enqueue(imap_lock, t) /\ jmap_lock' = jmap_lock
    /\ stale' = StaleOnDispatch(t, a)
    /\ UNCHANGED <<imap_clients, jmap_clients, pending>>

\* the "connected" verdict of the mail channel: contains_key(account_id) of
\* the map the id's prefix selects
StatusConnected(a) == IF IsJmap(a) THEN jmap_clients[a] ELSE imap_clients[a].present

AccountStatusRead(t) ==
    /\ task[t].pc = "wait" /\ task[t].cmd = "get_account_status"
    /\ IF IsJmap(task[t].account)
       THEN /\ CanAcquire(jmap_lock, t)
            /\ jmap_lock' = TakeAndDrop(jmap_lock, t)
            /\ UNCHANGED <<imap_lock, stale>>
       ELSE /\ CanAcquire(imap_lock, t)
            /\ imap_lock' = TakeAndDrop(imap_lock, t)
            /\ stale' = StaleOnReturn(t, FALSE)
            /\ UNCHANGED jmap_lock
    /\ task' = [task EXCEPT ![t].pc = "done",
                            ![t].res = IF StatusConnected(task[t].account)
                                       THEN "connected" ELSE "not connected"]
    /\ UNCHANGED <<imap_clients, jmap_clients, pending>>

\* the caller has read the status report
AccountStatusReturn(t) ==
    /\ task[t].pc = "done" /\ task[t].cmd = "get_account_status"
    /\ task' = [task EXCEPT ![t] = IdleTask]
    /\ UNCHANGED <<imap_clients, jmap_clients, imap_lock, jmap_lock, pending, stale>>

\* ---------------------------------------------------------------------
\* Registry: the IMAP session commands (lib.rs:188-447, imap/client.rs:137-863)
\* ---------------------------------------------------------------------
\* a session command for account a is received: imap_clients.lock().await.
\* Which command it is and its folder argument are first used when the lock
\* has been acquired, and are drawn there.
SessionCommand(t, a) ==
    /\ NextIdle(t)
    /\ a \in ImapAccounts
    /\ task' = [task EXCEPT ![t] = [IdleTask EXCEPT !.cmd = "session_command", !.account = a,
                                                     !.pc = "wait"]]
    /\ imap_lock' = Enqueue(imap_lock, t)
    /\ pending' = Append(pending, t)
    /\ stale' = StaleOnDispatch(t, a)
    /\ UNCHANGED <<imap_clients, jmap_clients, jmap_lock>>

\* the registry mutex while the ImapClient method of a session command runs:
\* the guard `clients` stays alive, the client is borrowed from it
SessionCommandLock(t) == Take(imap_lock, t)

\* clients.get(account_id).ok_or("Account not connected")?, then the
\* ImapClient method cmd sends its first command on the session.
\* A bulk method returns Ok at once for an empty uid list.
SessionCommandStart(t, cmd, f, empty) ==
    /\ task[t].pc = "wait" /\ task[t].cmd = "session_command"
    /\ cmd \in SessionCommands
    /\ f \in (IF cmd = "list_folders" THEN {"-"} ELSE Folders)
    /\ empty => cmd \in BulkCommands
    /\ CanAcquire(imap_lock, t)
    /\ IF ~imap_clients[task[t].account].present \/ empty
       THEN /\ imap_lock' = TakeAndDrop(imap_lock, t)
            /\ task' = [task EXCEPT ![t] = IdleTask]
            /\ pending' = Without(pending, t)
            /\ stale' = StaleOnReturn(t, FALSE)
       ELSE /\ imap_lock' = SessionCommandLock(t)
            /\ task' = StartExchange(t, [task[t] EXCEPT !.folder = f, !.pc = "net",
                                                        !.script = WireScript(cmd)])
            /\ UNCHANGED <<pending, stale>>
    /\ UNCHANGED <<imap_clients, jmap_clients, jmap_lock>>

\* the response to the command in flight arrives: an error ends the method
\* (map_err(..)?), success sends the next command or ends the method;
\* fetch_headers returns after SELECT when the mailbox or the range is empty
SessionCommandStep(t, resp, none) ==
    /\ task[t].pc = "net" /\ task[t].cmd = "session_command"
    /\ LET a == task[t].account
           wire == Head(task[t].script)
           rest == Tail(task[t].script)
           after == ImapEffect(imap_clients[a], wire, task[t].folder, resp)
       IN /\ resp \in Responses(imap_clients[a])
          /\ none => (resp = "ok" /\ task[t].script = WireScript("fetch_headers"))
          /\ imap_clients' = [imap_clients EXCEPT ![a] = after]
          /\ IF resp # "ok" \/ rest = <<>> \/ none
             THEN /\ imap_lock' = Drop(imap_lock)
                  /\ task' = [task EXCEPT ![t] = IdleTask]
                  /\ pending' = Without(pending, t)
                  /\ stale' = StaleOnReturn(t, resp = "transport")
             ELSE /\ task' = [task EXCEPT ![t].script = rest]
                  /\ UNCHANGED <<imap_lock, pending, stale>>
    /\ UNCHANGED <<jmap_clients, jmap_lock>>

\* ---------------------------------------------------------------------
\* Registry: send_email (lib.rs:449-487, imap/client.rs:580-600)
\* ---------------------------------------------------------------------
send_email(t, a) ==
    /\ NextIdle(t)
    /\ a \in ImapAccounts
    /\ task' = [task EXCEPT ![t] = [IdleTask EXCEPT !.cmd = "send_email", !.account = a,
                                                     !.pc = "wait"]]
    /\ imap_lock' = Enqueue(imap_lock, t)
    /\ pending' = Append(pending, t)
    /\ stale' = StaleOnDispatch(t, a)
    /\ UNCHANGED <<imap_clients, jmap_clients, jmap_lock>>

\* (variant: send_email keeps the guard over the SMTP send)
SendEmailLockKept(t) == Take(imap_lock, t)

\* the registry mutex once send_email has built the SMTP client from the
\* registered account: drop(clients) comes before the send
SendEmailLockForSmtp(t) == TakeAndDrop(imap_lock, t)

SendEmailStart(t) ==
    /\ task[t].pc = "wait" /\ task[t].cmd = "send_email"
    /\ CanAcquire(imap_lock, t)
    /\ IF ~imap_clients[task[t].account].present
       THEN /\ imap_lock' = TakeAndDrop(imap_lock, t)
            /\ task' = [task EXCEPT ![t] = IdleTask]
            /\ pending' = Without(pending, t)
            /\ stale' = StaleOnReturn(t, FALSE)
       ELSE /\ imap_lock' = SendEmailLockForSmtp(t)
            /\ task' = [task EXCEPT ![t].pc = "smtp"]
            /\ UNCHANGED <<pending, stale>>
    /\ UNCHANGED <<imap_clients, jmap_clients, jmap_lock>>

\* smtp_client.send_email(email).await? : whether send_email goes on to the
\* Sent copy after the SMTP send ended with sent (TRUE) or with an error
SendEmailGoesOn(sent) == sent

SendEmailSmtpEnd(t, sent) ==
    /\ task[t].pc = "smtp" /\ task[t].cmd = "send_email"
    /\ IF SendEmailGoesOn(sent)
       THEN /\ task' = [task EXCEPT ![t].pc = "wait2",
                                    ![t].res = IF sent THEN "sent" ELSE "smtp failed"]
            /\ imap_lock' = Enqueue(imap_lock, t)
            /\ UNCHANGED <<pending, stale>>
       ELSE /\ task' = [task EXCEPT ![t] = IdleTask]
            /\ pending' = Without(pending, t)
            /\ stale' = StaleOnReturn(t, FALSE)
            /\ UNCHANGED imap_lock
    /\ UNCHANGED <<imap_clients, jmap_clients, jmap_lock>>

\* if let Some(client) = clients.get(account_id): append_to_sent sends the
\* first APPEND on the session
SendEmailAppendStart(t) ==
    /\ task[t].pc = "wait2" /\ task[t].cmd = "send_email"
    /\ CanAcquire(imap_lock, t)
    /\ IF ~imap_clients[task[t].account].present
       THEN /\ imap_lock' = TakeAndDrop(imap_lock, t)
            /\ task' = [task EXCEPT ![t] = IdleTask]
            /\ pending' = Without(pending, t)
            /\ stale' = StaleOnReturn(t, FALSE)
       ELSE /\ imap_lock' = Take(imap_lock, t)
            /\ task' = StartExchange(t, [task[t] EXCEPT !.pc = "net", !.script = SentFolders])
            /\ UNCHANGED <<pending, stale>>
    /\ UNCHANGED <<imap_clients, jmap_clients, jmap_lock>>

\* the response to an APPEND: Ok ends the probing, an error tries the next
\* name; when every name failed the error is logged and send_email returns Ok
SendEmailAppendEnd(t, resp) ==
    /\ task[t].pc = "net" /\ task[t].cmd = "send_email"
    /\ LET a == task[t].account
           rest == Tail(task[t].script)
           after == ImapEffect(imap_clients[a], "APPEND", "-", resp)
       IN /\ resp \in Responses(imap_clients[a])
          /\ imap_clients' = [imap_clients EXCEPT ![a] = after]
          /\ IF resp = "ok" \/ rest = <<>>
             THEN /\ imap_lock' = Drop(imap_lock)
                  /\ task' = [task EXCEPT ![t] = IdleTask]
                  /\ pending' = Without(pending, t)
                  /\ stale' = StaleOnReturn(t, after.broken)
             ELSE /\ task' = [task EXCEPT ![t].script = rest]
                  /\ UNCHANGED <<imap_lock, pending, stale>>
    /\ UNCHANGED <<jmap_clients, jmap_lock>>

\* ---------------------------------------------------------------------
\* Registry: the assistant's mark_as_read tool (ai/tools.rs:253-304)
\* ---------------------------------------------------------------------
MaxUids == 2

RECURSIVE Repeat(_, _)
Repeat(seq, n) == IF n = 0 THEN <<>> ELSE seq \o Repeat(seq, n - 1)

execute_mark_as_read(t, a) ==
    /\ NextIdle(t)
    /\ a \in ImapAccounts
    /\ task' = [task EXCEPT ![t] = [IdleTask EXCEPT !.cmd = "execute_mark_as_read",
                                                     !.account = a, !.pc = "wait"]]
    /\ imap_lock' = Enqueue(imap_lock, t)
    /\ pending' = Append(pending, t)
    /\ stale' = StaleOnDispatch(t, a)
    /\ UNCHANGED <<imap_clients, jmap_clients, jmap_lock>>

\* clients.get(account_id), then client.add_flags(folder, uid, ["\\Seen"])
\* for each of the n uids under the one registry guard
MarkAsReadStart(t, f, n) ==
    /\ task[t].pc = "wait" /\ task[t].cmd = "execute_mark_as_read"
    /\ f \in Folders /\ n \in 1..MaxUids
    /\ CanAcquire(imap_lock, t)
    /\ IF ~imap_clients[task[t].account].present
       THEN /\ imap_lock' = TakeAndDrop(imap_lock, t)
            /\ task' = [task EXCEPT ![t] = IdleTask]
            /\ pending' = Without(pending, t)
            /\ stale' = StaleOnReturn(t, FALSE)
       ELSE /\ imap_lock' = Take(imap_lock, t)
            /\ task' = StartExchange(t, [task[t] EXCEPT !.pc = "net", !.folder = f,
                                     !.script = Repeat(WireScript("add_flags"), n)])
            /\ UNCHANGED <<pending, stale>>
    /\ UNCHANGED <<imap_clients, jmap_clients, jmap_lock>>

\* a failed add_flags is skipped (Err(_) => {}) and the loop goes on with the
\* next uid; the tool result is success: true in every case
MarkAsReadStep(t, resp) ==
    /\ task[t].pc = "net" /\ task[t].cmd = "execute_mark_as_read"
    /\ LET a == task[t].account
           wire == Head(task[t].script)
           rest == IF resp # "ok" /\ wire = "SELECT"
                   THEN Tail(Tail(task[t].script)) ELSE Tail(task[t].script)
           after == ImapEffect(imap_clients[a], wire, task[t].folder, resp)
       IN /\ resp \in Responses(imap_clients[a])
          /\ imap_clients' = [imap_clients EXCEPT ![a] = after]
          /\ IF rest = <<>>
             THEN /\ imap_lock' = Drop(imap_lock)
                  /\ task' = [task EXCEPT ![t] = IdleTask]
                  /\ pending' = Without(pending, t)
                  /\ stale' = StaleOnReturn(t, after.broken)
             ELSE /\ task' = [task EXCEPT ![t].script = rest]
                  /\ UNCHANGED <<imap_lock, pending, stale>>
    /\ UNCHANGED <<jmap_clients, jmap_lock>>

\* ---------------------------------------------------------------------
\* Registry: JMAP (lib.rs:927-1209, jmap/client.rs:137-288)
\* ---------------------------------------------------------------------
jmap_connect(t, a) ==
    /\ NextIdle(t)
    /\ a \in JmapAccounts
    /\ task' = [task EXCEPT ![t] = [IdleTask EXCEPT !.cmd = "jmap_connect", !.account = a,
                                                     !.pc = "login"]]
    /\ UNCHANGED <<imap_clients, jmap_clients, imap_lock, jmap_lock, pending, stale>>

\* session discovery and Client::connect end
JmapConnectEnd(t, ok) ==
    /\ task[t].pc = "login" /\ task[t].cmd = "jmap_connect"
    /\ IF ok
       THEN /\ task' = [task EXCEPT ![t].pc = "wait"]
            /\ jmap_lock' = Enqueue(jmap_lock, t)
       ELSE /\ task' = [task EXCEPT ![t] = IdleTask]
            /\ UNCHANGED jmap_lock
    /\ UNCHANGED <<imap_clients, jmap_clients, imap_lock, pending, stale>>

\* clients.insert(account_id, client)
RegisterJmap(t) ==
    /\ task[t].pc = "wait" /\ task[t].cmd = "jmap_connect"
    /\ CanAcquire(jmap_lock, t)
    /\ jmap_clients' = [jmap_clients EXCEPT ![task[t].account] = TRUE]
    /\ jmap_lock' = TakeAndDrop(jmap_lock, t)
    /\ task' = [task EXCEPT ![t] = IdleTask]
    /\ UNCHANGED <<imap_clients, imap_lock, pending, stale>>

jmap_disconnect(t, a) ==
    /\ NextIdle(t)
    /\ a \in JmapAccounts
    /\ task' = [task EXCEPT ![t] = [IdleTask EXCEPT !.cmd = "jmap_disconnect", !.account = a,
                                                     !.pc = "wait"]]
    /\ jmap_lock' = Enqueue(jmap_lock, t)
    /\ UNCHANGED <<imap_clients, jmap_clients, imap_lock, pending, stale>>

\* clients.remove(account_id) and JmapClient::disconnect, which sends nothing
JmapDisconnectRemove(t) ==
    /\ task[t].pc = "wait" /\ task[t].cmd = "jmap_disconnect"
    /\ CanAcquire(jmap_lock, t)
    /\ jmap_clients' = [jmap_clients EXCEPT ![task[t].account] = FALSE]
    /\ jmap_lock' = TakeAndDrop(jmap_lock, t)
    /\ task' = [task EXCEPT ![t] = IdleTask]
    /\ UNCHANGED <<imap_clients, imap_lock, pending, stale>>

\* a JMAP command (jmap_list_mailboxes, jmap_fetch_email_list, jmap_mark_read,
\* ...) is received: jmap_clients.lock().await
JmapCommand(t, a) ==
    /\ NextIdle(t)
    /\ a \in JmapAccounts
    /\ task' = [task EXCEPT ![t] = [IdleTask EXCEPT !.cmd = "jmap_command", !.account = a,
                                                     !.pc = "wait"]]
    /\ jmap_lock' = Enqueue(jmap_lock, t)
    /\ UNCHANGED <<imap_clients, jmap_clients, imap_lock, pending, stale>>

\* clients.get(account_id).ok_or("JMAP account not connected")?, then the
\* JmapClient method posts its request while the guard stays alive
JmapCommandStart(t) ==
    /\ task[t].pc = "wait" /\ task[t].cmd = "jmap_command"
    /\ CanAcquire(jmap_lock, t)
    /\ IF ~jmap_clients[task[t].account]
       THEN /\ jmap_lock' = TakeAndDrop(jmap_lock, t)
            /\ task' = [task EXCEPT ![t] = IdleTask]
       ELSE /\ jmap_lock' = Take(jmap_lock, t)
            /\ task' = [task EXCEPT ![t].pc = "net", ![t].script = <<"POST">>]
    /\ UNCHANGED <<imap_clients, jmap_clients, imap_lock, pending, stale>>

\* the response (or the failure) of the request arrives
JmapCommandEnd(t) ==
    /\ task[t].pc = "net" /\ task[t].cmd = "jmap_command"
    /\ jmap_lock' = Drop(jmap_lock)
    /\ task' = [task EXCEPT ![t] = IdleTask]
    /\ UNCHANGED <<imap_clients, jmap_clients, imap_lock, pending, stale>>

NextRegistry ==
    \E t \in Tasks :
        \/ \E a \in ImapAccounts : connect(t, a)
        \/ \E ok \in BOOLEAN : ConnectLoginEnd(t, ok)
        \/ RegisterImap(t)
        \/ \E a \in ImapAccounts : disconnect(t, a)
        \/ DisconnectRemove(t)
        \/ DisconnectLogoutEnd(t)
        \/ disconnect_all(t)
        \/ DisconnectAllDrain(t)
        \/ DisconnectAllLogoutEnd(t)
        \/ \E a \in AccountIds : get_account_status(t, a)
        \/ AccountStatusRead(t)
        \/ AccountStatusReturn(t)
        \/ \E a \in ImapAccounts : SessionCommand(t, a)
        \/ \E cmd \in SessionCommands, f \in Folders \cup {"-"}, empty \in BOOLEAN :
               SessionCommandStart(t, cmd, f, empty)
        \/ \E resp \in WireResponses, none \in BOOLEAN : SessionCommandStep(t, resp, none)
        \/ \E a \in ImapAccounts : send_email(t, a)
        \/ SendEmailStart(t)
        \/ \E sent \in BOOLEAN : SendEmailSmtpEnd(t, sent)
        \/ SendEmailAppendStart(t)
        \/ \E resp \in WireResponses : SendEmailAppendEnd(t, resp)
        \/ \E a \in ImapAccounts : execute_mark_as_read(t, a)
        \/ \E f \in Folders, n \in 1..MaxUids : MarkAsReadStart(t, f, n)
        \/ \E resp \in WireResponses : MarkAsReadStep(t, resp)
        \/ \E a \in JmapAccounts : jmap_connect(t, a)
        \/ \E ok \in BOOLEAN : JmapConnectEnd(t, ok)
        \/ RegisterJmap(t)
        \/ \E a \in JmapAccounts : jmap_disconnect(t, a)
        \/ JmapDisconnectRemove(t)
        \/ \E a \in JmapAccounts : JmapCommand(t, a)
        \/ JmapCommandStart(t)
        \/ JmapCommandEnd(t)

\* ---------------------------------------------------------------------
\* Registry: cancellation (the future of a command is dropped)
\* ---------------------------------------------------------------------
\* (variant: the guards of a dropped future stay as they are)
CancelLeak(lock, t) == lock

\* a registry mutex after the future of task t is dropped: a MutexGuard it
\* owns is dropped with it, a pending lock() leaves the queue
CancelRelease(lock, t) ==
    [holder |-> IF lock.holder = t THEN 0 ELSE lock.holder,
     waiters |-> Without(lock.waiters, t)]

\* the future of task t is dropped at the suspension point it is at. Nothing
\* in the handlers or in ImapClient runs on drop besides the drops of the
\* locals: the registered client of an exchange in flight stays registered,
\* with a command sent and its response unread
Cancel(t) ==
    /\ task[t].pc \notin {"idle", "done"}
    /\ imap_lock' = CancelRelease(imap_lock, t)
    /\ jmap_lock' = CancelRelease(jmap_lock, t)
    /\ imap_clients' =
           IF task[t].pc = "net" /\ task[t].cmd \in {"session_command", "send_email",
                                                     "execute_mark_as_read"}
           THEN [imap_clients EXCEPT ![task[t].account].desync = TRUE]
           ELSE imap_clients
    /\ task' = [task EXCEPT ![t] = IdleTask]
    /\ pending' = Without(pending, t)
    /\ stale' = [a \in ImapAccounts |->
                    IF stale[a].by = t THEN [stale[a] EXCEPT !.by = 0] ELSE stale[a]]
    /\ UNCHANGED jmap_clients

\* connect, disconnect, the session commands, send_email and the JMAP
\* commands, each of which can be dropped
NextCancel ==
    \E t \in Tasks :
        \/ \E a \in ImapAccounts : connect(t, a)
        \/ \E ok \in BOOLEAN : ConnectLoginEnd(t, ok)
        \/ RegisterImap(t)
        \/ \E a \in ImapAccounts : disconnect(t, a)
        \/ DisconnectRemove(t)
        \/ DisconnectLogoutEnd(t)
        \/ \E a \in ImapAccounts : SessionCommand(t, a)
        \/ \E cmd \in SessionCommands, f \in Folders \cup {"-"}, empty \in BOOLEAN :
               SessionCommandStart(t, cmd, f, empty)
        \/ \E resp \in WireResponses, none \in BOOLEAN : SessionCommandStep(t, resp, none)
        \/ \E a \in ImapAccounts : send_email(t, a)
        \/ SendEmailStart(t)
        \/ \E sent \in BOOLEAN : SendEmailSmtpEnd(t, sent)
        \/ SendEmailAppendStart(t)
        \/ \E resp \in WireResponses : SendEmailAppendEnd(t, resp)
        \/ \E a \in JmapAccounts : jmap_connect(t, a)
        \/ \E ok \in BOOLEAN : JmapConnectEnd(t, ok)
        \/ RegisterJmap(t)
        \/ \E a \in JmapAccounts : JmapCommand(t, a)
        \/ JmapCommandStart(t)
        \/ JmapCommandEnd(t)
        \/ Cancel(t)

\* ---------------------------------------------------------------------
\* Registry: properties
\* ---------------------------------------------------------------------
\* C1: in every reachable state at most one live (logged-in, not yet
\* logged-out) IMAP session exists for an account, also during a second connect
\* for a connected account and during concurrent connects. The live sessions
\* of an account are the one in the registry, those a connect holds between
\* LOGIN and insert, and those a disconnect has removed and is logging out.
C1_AtMostOneLiveSession ==
    \A a \in ImapAccounts :
        LET registered == IF imap_clients[a].present THEN 1 ELSE 0
            connecting == {t \in Tasks : /\ task[t].cmd = "connect" /\ task[t].pc = "wait"
                                         /\ task[t].account = a}
            leaving == {t \in Tasks : /\ task[t].cmd \in {"disconnect", "disconnect_all"}
                                      /\ task[t].pc = "net"
                                      /\ (task[t].account = a \/ a \in task[t].todo)}
        IN registered + Cardinality(connecting) + Cardinality(leaving) <= 1

\* C2: no task holds a registry mutex while a network operation of its
\* command is in flight.
C2_NoLockDuringNetwork ==
    \A t \in Tasks : task[t].pc = "net" => imap_lock.holder # t /\ jmap_lock.holder # t

\* C3: during the SMTP send of send_email the task holds no registry mutex
\* and waits for none; it holds the IMAP registry mutex only for the APPEND
\* to Sent, and it gets to the APPEND only after the SMTP send succeeded.
C3_SendEmailLockDiscipline ==
    \A t \in Tasks : task[t].cmd = "send_email" =>
        /\ jmap_lock.holder # t
        /\ task[t].pc = "smtp" =>
               imap_lock.holder # t /\ \A i \in 1..Len(imap_lock.waiters) : imap_lock.waiters[i] # t
        /\ imap_lock.holder = t => task[t].pc = "net"
        /\ task[t].pc \in {"wait2", "net"} => task[t].res = "sent"

\* a send_email is in its SMTP send while another task holds the IMAP registry
\* mutex
C3_Witness ==
    \E t, u \in Tasks : /\ task[t].cmd = "send_email" /\ task[t].pc = "smtp"
                        /\ u # t /\ imap_lock.holder = u

\* C4: once a command received after a transport failure of the account's
\* session has returned, the session is no longer registered.
C4_BrokenSessionRemoved ==
    \A a \in ImapAccounts : stale[a].lvl = 2 => ~imap_clients[a].present

\* C9: whenever a fetch/store/move/expunge command of a data-plane operation
\* is in flight, the session has the operation's own folder selected; every
\* data-plane method of ImapClient sends SELECT first.
C9_SelectsOwnFolder ==
    /\ \A t \in Tasks :
           (/\ task[t].pc = "net"
            /\ task[t].cmd \in {"session_command", "execute_mark_as_read"}
            /\ Head(task[t].script) \in DataPlaneWire)
           => imap_clients[task[t].account].selected = task[t].folder
    /\ \A m \in DataPlaneMethods :
           /\ Len(WireScript(m)) >= 2
           /\ Head(WireScript(m)) = "SELECT"
           /\ \A i \in 2..Len(WireScript(m)) : WireScript(m)[i] \in DataPlaneWire

\* a store/fetch/move/expunge command on Archive is in flight
C9_Witness ==
    \E t \in Tasks : /\ task[t].pc = "net" /\ task[t].cmd = "session_command"
                     /\ Head(task[t].script) \in DataPlaneWire
                     /\ task[t].folder = "Archive"

\* C10 as stated: no command starts its wire exchange after the exchange of a
\* command received later for the same account has started.
C10_ReceiptOrder == \A u \in Tasks : ~(task[u].late /\ task[u].pc = "net")

\* C10 amended: exchanges on an account's session never overlap, and the only
\* command a later-received command of the same account gets ahead of is a
\* send_email (between its lookup and its APPEND to Sent).
C10_OrderExceptSendEmail ==
    /\ \A t, u \in Tasks :
           (/\ t # u /\ task[t].pc = "net" /\ task[u].pc = "net"
            /\ task[t].account = task[u].account)
           => IsJmap(task[t].account)
    /\ \A u \in Tasks : task[u].late => task[u].cmd = "send_email"

\* two session commands of one account are pending: the first is in its
\* exchange, the second waits
C10_Witness ==
    \E t, u \in Tasks : /\ Len(pending) = 2 /\ pending[1] = t /\ pending[2] = u
                        /\ task[t].cmd = "session_command" /\ task[t].pc = "net"
                        /\ task[u].cmd = "session_command" /\ task[u].pc = "wait"
                        /\ task[t].account = task[u].account

\* C11: no command runs an exchange on a registered session on which an
\* exchange was abandoned by a cancelled command.
C11_NoCommandOnAbandonedSession ==
    \A t \in Tasks :
        (task[t].pc = "net" /\ task[t].cmd \in {"session_command", "send_email",
                                                 "execute_mark_as_read"})
        => ~imap_clients[task[t].account].desync

MaxAge == 2
MaxAttachments == 1
MaxAttachmentRows == 2
MaxHighestUid == 9

\* the (folder, uid) pairs of the model
CacheKeys == {<<"INBOX", 1>>, <<"INBOX", 2>>}
\* the categories seeded by EmailCache::new from get_default_categories
SystemCategories == {"work", "personal", "newsletter", "promotions", "social",
                     "updates", "finance", "travel"}
\* the id create_category makes ("custom_" and eight hex digits)
CustomCategory == "custom_1"
\* the category ids assignments are made with
CategoryIds == {"work", CustomCategory}
\* the confidence values the provider reports, in percent (the user's choice
\* is stored with 1.0)
Confidences == {60}

\* an emails row keeps cached_at; the model keeps the row's age now - cached_at
\* in days, counted up to MaxAge. body: body_text is neither NULL nor ''
NoEmail == [present |-> FALSE, age |-> 0, body |-> FALSE]
NoCategory == [present |-> FALSE, category_id |-> "-", confidence |-> 0,
               is_user_override |-> FALSE]
NoSyncState == [present |-> FALSE, highest_uid |-> 0]
NoJob == [kind |-> "none", folder |-> "-", todo |-> <<>>, cats |-> {}]

\* INSERT OR REPLACE INTO emails: REPLACE deletes the row it conflicts with,
\* and with foreign keys enforced that delete cascades to its attachments
ReplaceCascade(att, k) ==
    IF foreign_keys /\ emails[k].present THEN [att EXCEPT ![k] = 0] ELSE att

\* DELETE FROM emails for the keys in gone: with foreign keys enforced the
\* attachments rows of the deleted emails go with them (ON DELETE CASCADE)
DeleteCascade(att, gone) ==
    IF foreign_keys THEN [k \in CacheKeys |-> IF k \in gone THEN 0 ELSE att[k]] ELSE att

store_header(k) ==
    /\ emails' = [emails EXCEPT ![k] = [present |-> TRUE, age |-> 0, body |-> FALSE]]
    /\ attachments' = ReplaceCascade(attachments, k)
    /\ UNCHANGED <<email_categories, categories, sync_state, foreign_keys, ai_job>>

\* store_email with n attachments and a body_text that is empty or not: the
\* emails row, then one plain INSERT per attachment
store_email(k, n) ==
    /\ n \in 0..MaxAttachments
    /\ ReplaceCascade(attachments, k)[k] + n <= MaxAttachmentRows
    /\ \E text \in BOOLEAN :
           emails' = [emails EXCEPT ![k] = [present |-> TRUE, age |-> 0, body |-> text]]
    /\ attachments' = [ReplaceCascade(attachments, k) EXCEPT ![k] = @ + n]
    /\ UNCHANGED <<email_categories, categories, sync_state, foreign_keys, ai_job>>

\* UPDATE emails SET body_text = ?1, body_html = ?2 WHERE folder = ?3 AND
\* uid = ?4, with a body_text that is empty (text = FALSE) or not; the UPDATE
\* succeeds whether or not a row matches
UpdateBody(rows, k, text) ==
    IF rows[k].present THEN [rows EXCEPT ![k].body = text] ELSE rows

store_email_body(k, text) ==
    /\ text \in BOOLEAN
    /\ emails' = UpdateBody(emails, k, text)
    /\ UNCHANGED <<attachments, email_categories, categories, sync_state, foreign_keys, ai_job>>

\* SELECT body_text IS NOT NULL AND body_text != '' ... .optional() ... unwrap_or(false)
has_email_body(k) == emails[k].present /\ emails[k].body

\* DELETE FROM emails WHERE folder = ?1 AND uid = ?2
delete_email(k) ==
    /\ emails' = [emails EXCEPT ![k] = NoEmail]
    /\ attachments' = DeleteCascade(attachments, {k})
    /\ UNCHANGED <<email_categories, categories, sync_state, foreign_keys, ai_job>>

\* days = 0 keeps everything; else DELETE FROM emails WHERE cached_at < cutoff
\* with cutoff = now - days, which are the rows older than days
cleanup_old_emails(days) ==
    /\ days \in 0..(MaxAge - 1)
    /\ LET gone == IF days = 0 THEN {}
                   ELSE {k \in CacheKeys : emails[k].present /\ emails[k].age > days}
       IN /\ emails' = [k \in CacheKeys |-> IF k \in gone THEN NoEmail ELSE emails[k]]
          /\ attachments' = DeleteCascade(attachments, gone)
    /\ UNCHANGED <<email_categories, categories, sync_state, foreign_keys, ai_job>>

\* DELETE FROM attachments; DELETE FROM emails; DELETE FROM sync_state; VACUUM
clear ==
    /\ attachments' = [k \in CacheKeys |-> 0]
    /\ emails' = [k \in CacheKeys |-> NoEmail]
    /\ sync_state' = [f \in Folders |-> NoSyncState]
    /\ UNCHANGED <<email_categories, categories, foreign_keys, ai_job>>

\* INSERT OR REPLACE INTO sync_state (folder, last_sync, highest_uid)
set_sync_state(f, u) ==
    /\ u \in 0..MaxHighestUid
    /\ sync_state' = [sync_state EXCEPT ![f] = [present |-> TRUE, highest_uid |-> u]]
    /\ UNCHANGED <<emails, attachments, email_categories, categories, foreign_keys, ai_job>>

\* EmailCache::set_email_category: INSERT OR REPLACE INTO email_categories
SetEmailCategory(k, c, confidence, is_user_override) ==
    [email_categories EXCEPT ![k] = [present |-> TRUE, category_id |-> c,
                                     confidence |-> confidence,
                                     is_user_override |-> is_user_override]]

\* the command set_email_category: the user's choice, confidence 1.0
set_email_category(k, c) ==
    /\ c \in CategoryIds
    /\ email_categories' = SetEmailCategory(k, c, 100, TRUE)
    /\ UNCHANGED <<emails, attachments, categories, sync_state, foreign_keys, ai_job>>

create_category ==
    /\ CustomCategory \notin categories
    /\ categories' = categories \cup {CustomCategory}
    /\ UNCHANGED <<emails, attachments, email_categories, sync_state, foreign_keys, ai_job>>

\* DELETE FROM email_categories WHERE category_id = ?1, then
\* DELETE FROM categories WHERE id = ?1 AND is_system = 0
delete_category(c) ==
    /\ c \in CategoryIds
    /\ email_categories' = [k \in CacheKeys |->
           IF email_categories[k].present /\ email_categories[k].category_id = c
           THEN NoCategory ELSE email_categories[k]]
    /\ categories' = IF c \in SystemCategories THEN categories ELSE categories \ {c}
    /\ UNCHANGED <<emails, attachments, sync_state, foreign_keys, ai_job>>

\* a day passes
Tick ==
    /\ \E k \in CacheKeys : emails[k].present /\ emails[k].age < MaxAge
    /\ emails' = [k \in CacheKeys |->
                     IF emails[k].present /\ emails[k].age < MaxAge
                     THEN [emails[k] EXCEPT !.age = @ + 1] ELSE emails[k]]
    /\ UNCHANGED <<attachments, email_categories, categories, sync_state, foreign_keys, ai_job>>

\* ---------------------------------------------------------------------
\* Cache: automatic categorization (lib.rs:1661-1720, cache/mod.rs:644-664)
\* ---------------------------------------------------------------------
\* ORDER BY date_timestamp DESC: the uids of S, newest first (the model takes
\* the higher uid for the newer email)
RECURSIVE SeqOfUids(_)
SeqOfUids(S) == IF S = {} THEN <<>>
                ELSE LET u == CHOOSE x \in S : \A y \in S : x >= y
                     IN <<u>> \o SeqOfUids(S \ {u})

\* get_uncategorized_emails(folder, 10): the emails of the folder without an
\* email_categories row
get_uncategorized_emails(f) ==
    SeqOfUids({k[2] : k \in {x \in CacheKeys : /\ x[1] = f /\ emails[x].present
                                               /\ ~email_categories[x].present}})

\* categorize_email_ai is called: get_categories, then the provider is asked
categorize_email_ai(k) ==
    /\ ai_job.kind = "none"
    /\ ai_job' = [kind |-> "single", folder |-> k[1], todo |-> <<k[2]>>, cats |-> categories]
    /\ UNCHANGED <<emails, attachments, email_categories, categories, sync_state,
                   foreign_keys>>

\* categorize_emails_batch is called: get_categories and
\* get_uncategorized_emails, then the provider is asked about the first email
categorize_emails_batch(f) ==
    /\ ai_job.kind = "none"
    /\ get_uncategorized_emails(f) # <<>>
    /\ ai_job' = [kind |-> "batch", folder |-> f, todo |-> get_uncategorized_emails(f),
                  cats |-> categories]
    /\ UNCHANGED <<emails, attachments, email_categories, categories, sync_state,
                   foreign_keys>>

\* the row written when the provider has answered for key k: the result is
\* stored with is_user_override = false
StoreAiResult(k, c, confidence) == SetEmailCategory(k, c, confidence, FALSE)

\* the provider's answer for the email at the head of the job arrives (or the
\* request fails): categorize_email_ai stores the result and returns;
\* categorize_emails_batch stores the result when get_email still finds the
\* email and goes on with the next uid
AiResult(ok, c, confidence) ==
    /\ ai_job.kind # "none"
    /\ c \in ai_job.cats \cap CategoryIds
    /\ confidence \in Confidences
    /\ LET k == <<ai_job.folder, Head(ai_job.todo)>>
           stores == ok /\ (ai_job.kind = "single" \/ emails[k].present)
       IN email_categories' = IF stores THEN StoreAiResult(k, c, confidence)
                              ELSE email_categories
    /\ ai_job' = IF Tail(ai_job.todo) = <<>> THEN NoJob
                 ELSE [ai_job EXCEPT !.todo = Tail(ai_job.todo)]
    /\ UNCHANGED <<emails, attachments, categories, sync_state, foreign_keys>>

NextCache ==
    \/ \E k \in CacheKeys : store_header(k)
    \/ \E k \in CacheKeys, n \in 0..MaxAttachments : store_email(k, n)
    \/ \E k \in CacheKeys, text \in BOOLEAN : store_email_body(k, text)
    \/ \E k \in CacheKeys : delete_email(k)
    \/ \E days \in 0..(MaxAge - 1) : cleanup_old_emails(days)
    \/ clear
    \/ \E k \in CacheKeys, c \in CategoryIds : set_email_category(k, c)
    \/ create_category
    \/ \E c \in CategoryIds : delete_category(c)
    \/ Tick
    \/ \E k \in CacheKeys : categorize_email_ai(k)
    \/ \E f \in Folders : categorize_emails_batch(f)
    \/ \E ok \in BOOLEAN, c \in CategoryIds, confidence \in Confidences : AiResult(ok, c, confidence)

\* the sync_state table on its own
NextSync ==
    \/ \E f \in Folders, u \in 0..MaxHighestUid : set_sync_state(f, u)
    \/ clear

\* =====================================================================
\* EmailCache::clear statement by statement (cache/mod.rs:511-524): three
\* DELETE statements and a VACUUM, each run and committed on its own by
\* Connection::execute; every command opens its own connection
\* (EmailCache::new), so other commands read and write between them
\* =====================================================================
\* self.db.execute("DELETE FROM attachments", [])
ClearDeleteAttachments ==
    /\ clear_pc = 0
    /\ attachments' = [k \in CacheKeys |-> 0]
    /\ clear_pc' = 1
    /\ UNCHANGED <<emails, email_categories, categories, sync_state, foreign_keys, ai_job>>

\* self.db.execute("DELETE FROM emails", [])
ClearDeleteEmails ==
    /\ clear_pc = 1
    /\ emails' = [k \in CacheKeys |-> NoEmail]
    /\ attachments' = DeleteCascade(attachments, CacheKeys)
    /\ clear_pc' = 2
    /\ UNCHANGED <<email_categories, categories, sync_state, foreign_keys, ai_job>>

\* self.db.execute("DELETE FROM sync_state", [])
ClearDeleteSyncState ==
    /\ clear_pc = 2
    /\ sync_state' = [f \in Folders |-> NoSyncState]
    /\ clear_pc' = 3
    /\ UNCHANGED <<emails, attachments, email_categories, categories, foreign_keys, ai_job>>

\* self.db.execute("VACUUM", []) succeeds or fails, and clear returns
ClearVacuum ==
    /\ clear_pc = 3
    /\ clear_pc' = 0
    /\ UNCHANGED cacheVars

\* a statement after the first fails (.map_err(...)?): clear returns Err with
\* the statements before it committed
ClearFails ==
    /\ clear_pc \in {1, 2}
    /\ clear_pc' = 0
    /\ UNCHANGED cacheVars

NextClear ==
    \/ ClearDeleteAttachments
    \/ ClearDeleteEmails
    \/ ClearDeleteSyncState
    \/ ClearVacuum
    \/ ClearFails
    \/ \E k \in CacheKeys, n \in 0..MaxAttachments : store_email(k, n) /\ UNCHANGED clear_pc
    \/ \E f \in Folders : set_sync_state(f, MaxHighestUid) /\ UNCHANGED clear_pc

\* =====================================================================
\* ImapClient::move_email and ImapClient::bulk_move against a server
\* (imap/client.rs:555-574, 783-807)
\* =====================================================================
Messages == 1..(MaxUids + 2)
MoveAnswers == {"ok", "select no", "move no"}

NoMove == [wire |-> "-", res |-> "-"]
NoServer == [advertises_move |-> FALSE, selected |-> "none",
             at |-> [m \in Messages |-> "INBOX"], last |-> NoMove]

\* SELECT folder, then UID MOVE of the uids to target, as the server answers
\* them: SELECT is refused (answer "select no") or selects the folder; a
\* server that does not advertise MOVE (RFC 6851) rejects UID MOVE with BAD;
\* one that does moves the messages of the set that are in the folder, or
\* answers NO (answer "move no")
UidMove(srv, folder, uids, target, answer) ==
    IF answer = "select no"
    THEN [srv EXCEPT !.selected = "none", !.last = [wire |-> "SELECT", res |-> "Err"]]
    ELSE IF srv.advertises_move /\ answer = "ok"
    THEN [srv EXCEPT !.selected = folder,
                     !.at = [m \in Messages |->
                                IF m \in uids /\ srv.at[m] = folder THEN target ELSE srv.at[m]],
                     !.last = [wire |-> "UID MOVE", res |-> "Ok"]]
    ELSE [srv EXCEPT !.selected = folder, !.last = [wire |-> "UID MOVE", res |-> "Err"]]

\* sess.select(folder), then sess.uid_mv(uid, target)
move_email(folder, uid, target, answer) ==
    /\ folder # target
    /\ imap_server' = UidMove(imap_server, folder, {uid}, target, answer)

\* an empty uid list returns Ok at once; else sess.select(folder), then
\* sess.uid_mv(uids_to_sequence(uids), target)
bulk_move(folder, uids, target, answer) ==
    /\ folder # target
    /\ imap_server' = IF uids = {} THEN [imap_server EXCEPT !.last = [wire |-> "-", res |-> "Ok"]]
                      ELSE UidMove(imap_server, folder, uids, target, answer)

NextMove ==
    \/ \E folder \in Folders, uid \in Messages, target \in Folders, answer \in MoveAnswers :
           move_email(folder, uid, target, answer)
    \/ \E folder \in Folders, uids \in SUBSET Messages, target \in Folders, answer \in MoveAnswers :
           bulk_move(folder, uids, target, answer)

\* =====================================================================
\* The JMAP Sieve commands and the server's answers (jmap/client.rs:1060-1325)
\* =====================================================================
ScriptIds == {"s1", "s2"}

\* what the server answers to the POST of one SieveScript/set call: an HTTP
\* status outside 2xx; ["error", {type, description}, "0"]; a
\* ["SieveScript/set", ...] holding notCreated / notUpdated / notDestroyed;
\* or a ["SieveScript/set", ...] that did what was asked
SieveAnswers == {"http error", "method error", "set error", "ok"}

NoSieve == [scripts |-> {}, active |-> "none", last |-> [cmd |-> "-", answer |-> "-", res |-> "-"]]

Returned(sv, cmd, answer, res) == [sv EXCEPT !.last = [cmd |-> cmd, answer |-> answer, res |-> res]]

\* set_sieve_script(id, name, content, is_active): the status check, then
\* methodResponses[0][1].notCreated / .notUpdated is looked up; with an id
\* the id is returned, without one methodResponses[0][1].created.new.id
set_sieve_script(id, is_active, answer) ==
    /\ id \in ScriptIds \cup {"none"}
    /\ answer = "ok" => IF id = "none" THEN jmap_sieve.scripts # ScriptIds
                                       ELSE id \in jmap_sieve.scripts
    /\ LET new == IF id # "none" THEN id
                  ELSE CHOOSE x \in ScriptIds \ jmap_sieve.scripts : TRUE
           done == IF answer = "ok"
                   THEN [jmap_sieve EXCEPT !.scripts = @ \cup {new},
                                           !.active = IF is_active THEN new ELSE @]
                   ELSE jmap_sieve
           res == CASE answer = "http error" -> "Err"
                    [] answer = "set error" -> "Err"
                    [] answer = "method error" -> IF id # "none" THEN "Ok" ELSE "Err"
                    [] OTHER -> "Ok"
       IN jmap_sieve' = Returned(done, "set_sieve_script", answer, res)

\* delete_sieve_script: the status check, then every method response is
\* read: "error" and notDestroyed[script_id] fail the command
delete_sieve_script(id, answer) ==
    /\ id \in ScriptIds
    /\ answer = "ok" => (id \in jmap_sieve.scripts /\ jmap_sieve.active # id)
    /\ LET done == IF answer = "ok" THEN [jmap_sieve EXCEPT !.scripts = @ \ {id}]
                   ELSE jmap_sieve
       IN jmap_sieve' = Returned(done, "delete_sieve_script", answer,
                                 IF answer = "ok" THEN "Ok" ELSE "Err")

\* the status check is all that activate_sieve_script and
\* deactivate_sieve_scripts read of the response
StatusOnly(answer) == IF answer = "http error" THEN "Err" ELSE "Ok"

activate_sieve_script(id, answer) ==
    /\ id \in ScriptIds
    /\ answer # "set error"
    /\ answer = "ok" => id \in jmap_sieve.scripts
    /\ LET done == IF answer = "ok" THEN [jmap_sieve EXCEPT !.active = id] ELSE jmap_sieve
       IN jmap_sieve' = Returned(done, "activate_sieve_script", answer, StatusOnly(answer))

deactivate_sieve_scripts(answer) ==
    /\ answer # "set error"
    /\ LET done == IF answer = "ok" THEN [jmap_sieve EXCEPT !.active = "none"] ELSE jmap_sieve
       IN jmap_sieve' = Returned(done, "deactivate_sieve_scripts", answer, StatusOnly(answer))

NextSieve ==
    \/ \E id \in ScriptIds \cup {"none"}, is_active \in BOOLEAN, answer \in SieveAnswers :
           set_sieve_script(id, is_active, answer)
    \/ \E id \in ScriptIds, answer \in SieveAnswers : delete_sieve_script(id, answer)
    \/ \E id \in ScriptIds, answer \in SieveAnswers : activate_sieve_script(id, answer)
    \/ \E answer \in SieveAnswers : deactivate_sieve_scripts(answer)

\* =====================================================================
\* JmapClient::connect: discovery and the trusted host list
\* (jmap/client.rs:137-259)
\* =====================================================================
MaxRedirects == 2
Hosts == {"mail.example", "login.example", "cdn.example", "api.example"}

\* apiUrl in the session document: an absolute URL on some host, a path
\* starting with '/', or a relative path
ApiUrls == Hosts \cup {"/path", "relative"}

Chains == UNION {[1..n -> Hosts] : n \in 1..(MaxRedirects + 1)}

NoSession == [connected |-> FALSE, chain |-> <<>>, api_host |-> "-", trusted |-> {}]

\* the host of the resolved api_url: its own when absolute, else the host of
\* the final URL after redirects
ResolveApiHost(final, api) == IF api \in Hosts THEN api ELSE final

\* trusted_hosts: the original host, the final URL's host, the api URL's host
TrustedHosts(chain, api) ==
    {chain[1], chain[Len(chain)], ResolveApiHost(chain[Len(chain)], api)}

\* connect with the GET of /.well-known/jmap walking chain (the requested
\* host first, the host that served the session last) and a session
\* document holding apiUrl api; ok: Client::connect succeeds
JmapConnect(chain, api, ok) ==
    /\ chain \in Chains
    /\ api \in ApiUrls
    /\ jmap_session' = IF ok
                       THEN [connected |-> TRUE, chain |-> chain,
                             api_host |-> ResolveApiHost(chain[Len(chain)], api),
                             trusted |-> TrustedHosts(chain, api)]
                       ELSE jmap_session

\* JmapClient::disconnect: self.client = None
JmapSessionDisconnect ==
    /\ jmap_session.connected
    /\ jmap_session' = NoSession

NextTrust ==
    \/ \E chain \in Chains, api \in ApiUrls, ok \in BOOLEAN : JmapConnect(chain, api, ok)
    \/ JmapSessionDisconnect

\* =====================================================================
\* The ToolResult of execute_mark_as_read (ai/tools.rs:253-304)
\* =====================================================================
NoToolCall == [pc |-> "idle", todo |-> 0, answers |-> <<>>, cache |-> "-",
               success |-> FALSE, marked |-> 0, error |-> "-"]

\* the number of add_flags calls that returned Ok
RECURSIVE CountOk(_)
CountOk(answers) ==
    IF answers = <<>> THEN 0
    ELSE (IF Head(answers) = "ok" THEN 1 ELSE 0) + CountOk(Tail(answers))

\* extract_uids, the folder, clients.get(account_id): a call without uids or
\* for an account that is not connected returns success: false at once
MarkAsReadCall(n, has_uids, connected) ==
    /\ tool_call.pc = "idle"
    /\ n \in 1..(MaxUids + 1)
    /\ tool_call' =
           IF ~has_uids
           THEN [NoToolCall EXCEPT !.pc = "returned", !.error = "uids ist erforderlich"]
           ELSE IF ~connected
           THEN [NoToolCall EXCEPT !.pc = "returned",
                                   !.error = "Nicht mit diesem Konto verbunden"]
           ELSE [NoToolCall EXCEPT !.pc = "add_flags", !.todo = n]

\* client.add_flags(folder, uid, ["\\Seen"]) for the next uid: Ok counts,
\* Err(_) => {}
MarkAsReadAddFlags(resp) ==
    /\ tool_call.pc = "add_flags"
    /\ resp \in WireResponses
    /\ tool_call' = [tool_call EXCEPT !.answers = Append(@, resp),
                                      !.todo = @ - 1,
                                      !.pc = IF tool_call.todo = 1 THEN "cache" ELSE @]

\* if let Ok(cache) = EmailCache::new(..) { let _ = cache.update_email_flags(..) },
\* then ToolResult { success: true, data: {marked, total}, error: None }
MarkAsReadUpdateCache(cache_ok) ==
    /\ tool_call.pc = "cache"
    /\ tool_call' = [tool_call EXCEPT !.pc = "returned",
                                      !.cache = IF cache_ok THEN "ok" ELSE "failed",
                                      !.success = TRUE,
                                      !.marked = CountOk(tool_call.answers)]

\* the result is handed to the caller
MarkAsReadDone ==
    /\ tool_call.pc = "returned"
    /\ tool_call' = NoToolCall

NextTool ==
    \/ \E n \in 1..(MaxUids + 1), has_uids \in BOOLEAN, connected \in BOOLEAN :
           MarkAsReadCall(n, has_uids, connected)
    \/ \E resp \in WireResponses : MarkAsReadAddFlags(resp)
    \/ \E cache_ok \in BOOLEAN : MarkAsReadUpdateCache(cache_ok)
    \/ MarkAsReadDone

\* =====================================================================
\* The cloud-auth token (cloud/auth.rs, cloud/sync.rs); the token file is
\* written and removed without error
\* =====================================================================
Tokens == {"t1", "t2"}
HttpAnswers == {"200", "401", "network error"}

NoAuth == [token |-> "none", user |-> FALSE, disk |-> "none",
           last |-> [cmd |-> "-", answer |-> "-", res |-> "-"]]

\* what a command leaves in cloud_auth.last
Answered(auth, cmd, answer, res) ==
    [auth EXCEPT !.last = [cmd |-> cmd, answer |-> answer, res |-> res]]

\* clear_auth_state(); clear_token_from_storage()
ClearAuth(auth) == [auth EXCEPT !.token = "none", !.user = FALSE, !.disk = "none"]

\* register: on success set_auth_state and save_token_to_storage; a response
\* that is not a success leaves the state alone
register(tok, answer) ==
    /\ tok \in Tokens
    /\ cloud_auth' =
           CASE answer = "200" ->
                  Answered([cloud_auth EXCEPT !.token = tok, !.user = TRUE, !.disk = tok],
                           "register", answer, "Ok")
             [] answer = "401" -> Answered(cloud_auth, "register", answer, "Ok")
             [] OTHER -> Answered(cloud_auth, "register", answer, "Err")

\* login: on success set_auth_state and save_token_to_storage; a 401 is
\* returned as Ok(AuthResponse { success: false, .. })
login(tok, answer) ==
    /\ tok \in Tokens
    /\ cloud_auth' =
           CASE answer = "200" ->
                  Answered([cloud_auth EXCEPT !.token = tok, !.user = TRUE, !.disk = tok],
                           "login", answer, "Ok")
             [] answer = "401" -> Answered(cloud_auth, "login", answer, "Ok")
             [] OTHER -> Answered(cloud_auth, "login", answer, "Err")

\* logout: best-effort POST, then clear_auth_state and clear_token_from_storage
logout ==
    /\ cloud_auth' = Answered(ClearAuth(cloud_auth), "logout", "-", "Ok")

\* refresh_user: Ok(None) without a token; a 401 clears the state and the file
refresh_user(answer) ==
    /\ cloud_auth' =
           IF cloud_auth.token = "none" THEN Answered(cloud_auth, "refresh_user", "-", "Ok")
           ELSE CASE answer = "401" -> Answered(ClearAuth(cloud_auth), "refresh_user", answer, "Ok")
                  [] answer = "200" ->
                       Answered([cloud_auth EXCEPT !.user = TRUE], "refresh_user", answer, "Ok")
                  [] OTHER -> Answered(cloud_auth, "refresh_user", answer, "Err")

\* refresh_token: a 401 clears the state and the file; a 200 stores the new
\* token in the state and in the file
refresh_token(tok, answer) ==
    /\ tok \in Tokens
    /\ cloud_auth' =
           IF cloud_auth.token = "none" THEN Answered(cloud_auth, "refresh_token", "-", "Ok")
           ELSE CASE answer = "401" -> Answered(ClearAuth(cloud_auth), "refresh_token", answer, "Ok")
                  [] answer = "200" ->
                       Answered([cloud_auth EXCEPT !.token = tok, !.disk = tok],
                                "refresh_token", answer, "Ok")
                  [] OTHER -> Answered(cloud_auth, "refresh_token", answer, "Err")

\* restore_session: load_token_from_storage, set_auth_state(token, None),
\* then refresh_user
restore_session(answer) ==
    /\ cloud_auth' =
           IF cloud_auth.disk = "none" THEN Answered(cloud_auth, "restore_session", "-", "Ok")
           ELSE LET loaded == [cloud_auth EXCEPT !.token = cloud_auth.disk, !.user = FALSE]
                IN CASE answer = "401" ->
                          Answered(ClearAuth(loaded), "restore_session", answer, "Ok")
                     [] answer = "200" ->
                          Answered([loaded EXCEPT !.user = TRUE], "restore_session", answer, "Ok")
                     [] OTHER -> Answered(loaded, "restore_session", answer, "Err")

\* push_data, pull_data and get_sync_status: "Not logged in" without a token;
\* a 401 returns Err("Session expired. Please login again.")
SyncRequest(cmd, answer) ==
    /\ cloud_auth' =
           IF cloud_auth.token = "none" THEN Answered(cloud_auth, cmd, "-", "Err")
           ELSE Answered(cloud_auth, cmd, answer, IF answer = "200" THEN "Ok" ELSE "Err")

push_data(answer) == SyncRequest("push_data", answer)

pull_data(answer) == SyncRequest("pull_data", answer)

get_sync_status(answer) == SyncRequest("get_sync_status", answer)

\* the application is started again: AUTH_STATE is AuthState::default()
Restart ==
    /\ cloud_auth' = [NoAuth EXCEPT !.disk = cloud_auth.disk]

NextAuth ==
    \/ \E tok \in Tokens, answer \in HttpAnswers : register(tok, answer)
    \/ \E tok \in Tokens, answer \in HttpAnswers : login(tok, answer)
    \/ logout
    \/ \E answer \in HttpAnswers : refresh_user(answer)
    \/ \E tok \in Tokens, answer \in HttpAnswers : refresh_token(tok, answer)
    \/ \E answer \in HttpAnswers : restore_session(answer)
    \/ \E answer \in HttpAnswers : push_data(answer)
    \/ \E answer \in HttpAnswers : pull_data(answer)
    \/ \E answer \in HttpAnswers : get_sync_status(answer)
    \/ Restart

\* =====================================================================
\* rules_to_sieve_script and parse_sieve_script (sieve/client.rs:337-501);
\* a script is its sequence of lines, a line what its text holds; names and
\* values are plain words without quotes or blanks
\* =====================================================================
MaxRules == 2
MaxConditions == 2
MaxActions == 1

RuleNames == {"spam"}
Operators == {"contains", "matches"}
ActionTypes == {"fileinto", "flag"}

SeqsUpTo(S, n) == UNION {[1..i -> S] : i \in 0..n}

SieveConditions == [field : {"from"}, operator : Operators, value : {"x"}]
SieveActions == [action_type : ActionTypes, value : {"Junk"}]
SieveRules == [name : RuleNames, enabled : BOOLEAN,
               conditions : SeqsUpTo(SieveConditions, MaxConditions),
               actions : SeqsUpTo(SieveActions, MaxActions)]

NoRoundTrip == [pc |-> "rules", rules |-> <<>>, script |-> <<>>, parsed |-> <<>>]

\* a line of the script: kind is "require", "rule" (# Rule: name, after
\* # DISABLED: when disabled), "if allof (", "test" (header :operator
\* "field" "value", after "if " when first), ") {", "action" (word "value";)
\* or "}"
Line(kind) == [kind |-> kind, name |-> "-", disabled |-> FALSE, operator |-> "-",
               field |-> "-", value |-> "-", word |-> "-"]

RECURSIVE Flatten(_)
Flatten(seqs) == IF seqs = <<>> THEN <<>> ELSE Head(seqs) \o Flatten(Tail(seqs))

\* the word an action is written with
ActionWord(action_type) ==
    CASE action_type = "fileinto" -> "fileinto"
      [] action_type = "redirect" -> "redirect"
      [] action_type = "discard" -> "discard"
      [] action_type = "keep" -> "keep"
      [] action_type = "flag" -> "addflag"
      [] action_type = "reject" -> "reject"
      [] OTHER -> "keep"

\* the lines of one rule: the comment; nothing more without conditions;
\* else the test on the "if" line or the tests inside allof ( ... ), the
\* actions, and the closing brace
RuleLines(rule) ==
    LET comment == [Line("rule") EXCEPT !.name = rule.name, !.disabled = ~rule.enabled]
        test(c) == [Line("test") EXCEPT !.operator = c.operator, !.field = c.field,
                                        !.value = c.value]
        tests == [i \in 1..Len(rule.conditions) |-> test(rule.conditions[i])]
        acts == [i \in 1..Len(rule.actions) |->
                    [Line("action") EXCEPT !.word = ActionWord(rule.actions[i].action_type),
                                           !.value = rule.actions[i].value]]
    IN IF rule.conditions = <<>> THEN <<comment>>
       ELSE IF Len(rule.conditions) > 1
       THEN <<comment, Line("if allof (")>> \o tests \o <<Line(") {")>> \o acts \o <<Line("}")>>
       ELSE <<comment>> \o tests \o acts \o <<Line("}")>>

rules_to_sieve_script(rules) ==
    <<Line("require")>> \o Flatten([i \in 1..Len(rules) |-> RuleLines(rules[i])])

\* parse_sieve_script line by line; acc.done are the rules pushed, acc.cur
\* is current_rule (empty or one rule)
ParseLine(acc, line) ==
    LET \* line.starts_with("# Rule:")
        opened == IF line.kind = "rule" /\ ~line.disabled
                  THEN [done |-> acc.done \o acc.cur,
                        cur |-> <<[name |-> line.name, enabled |-> TRUE,
                                   conditions |-> <<>>, actions |-> <<>>]>>]
                  ELSE acc
        \* line.starts_with("# DISABLED:")
        disabled == IF line.kind = "rule" /\ line.disabled /\ opened.cur # <<>>
                    THEN [opened EXCEPT !.cur[1].enabled = FALSE]
                    ELSE opened
        \* line.contains("header :contains") || line.contains("header :is")
        tested == IF /\ line.kind = "test" /\ line.operator \in {"contains", "is"}
                     /\ disabled.cur # <<>>
                  THEN [disabled EXCEPT !.cur[1].conditions =
                           Append(@, [field |-> line.field, operator |-> line.operator,
                                      value |-> line.value])]
                  ELSE disabled
        \* starts_with("fileinto") / ("redirect") / ("discard") / ("keep")
    IN IF /\ line.kind = "action" /\ tested.cur # <<>>
          /\ line.word \in {"fileinto", "redirect", "discard", "keep"}
       THEN [tested EXCEPT !.cur[1].actions =
                Append(@, [action_type |-> line.word,
                           value |-> IF line.word \in {"fileinto", "redirect"}
                                     THEN line.value ELSE "-"])]
       ELSE tested

RECURSIVE ParseLines(_, _)
ParseLines(acc, lines) ==
    IF lines = <<>> THEN acc.done \o acc.cur
    ELSE ParseLines(ParseLine(acc, Head(lines)), Tail(lines))

parse_sieve_script(script) == ParseLines([done |-> <<>>, cur |-> <<>>], script)

\* a list of rules is written to a script
SaveRules ==
    /\ sieve_rt.pc = "rules"
    /\ sieve_rt' = [sieve_rt EXCEPT !.pc = "script",
                                    !.script = rules_to_sieve_script(sieve_rt.rules)]

\* the script is read back
LoadRules ==
    /\ sieve_rt.pc = "script"
    /\ sieve_rt' = [sieve_rt EXCEPT !.pc = "parsed",
                                    !.parsed = parse_sieve_script(sieve_rt.script)]

NextRules ==
    \/ SaveRules
    \/ LoadRules

\* =====================================================================
\* uids_to_sequence (imap/client.rs:867-906); u32 is scaled to 0..MaxUid
\* =====================================================================
MaxUid == 4
MaxUidList == 3

UidLists == UNION {[1..n -> 1..MaxUid] : n \in 1..MaxUidList}

NoSeqCall == [pc |-> "called", overflow_checks |-> FALSE, uids |-> <<>>,
              items |-> <<>>, panicked |-> FALSE]

\* range_start.to_string() or format!("{}:{}", range_start, range_end)
ItemStartOnly(range_start, range_end) == <<range_start, range_start>>
Item(range_start, range_end) == <<range_start, range_end>>

\* range_end + 1 on u32: past the largest value a build with overflow checks
\* panics (-1 here) and a build without them wraps to 0
Succ(range_end, overflow_checks) ==
    IF range_end < MaxUid THEN range_end + 1
    ELSE IF overflow_checks THEN -1 ELSE 0

\* the loop over sorted[1..]
RECURSIVE ScanUids(_, _, _)
ScanUids(st, rest, overflow_checks) ==
    IF rest = <<>> \/ st.panicked THEN st
    ELSE LET uid == Head(rest)
             next == Succ(st.range_end, overflow_checks)
         IN IF next = -1 THEN [st EXCEPT !.panicked = TRUE]
            ELSE IF uid = next
            THEN ScanUids([st EXCEPT !.range_end = uid], Tail(rest), overflow_checks)
            ELSE ScanUids([items |-> Append(st.items, Item(st.range_start, st.range_end)),
                           range_start |-> uid, range_end |-> uid, panicked |-> FALSE],
                          Tail(rest), overflow_checks)

\* the items of the string returned, or a panic
uids_to_sequence(uids, overflow_checks) ==
    IF uids = <<>> THEN [items |-> <<>>, panicked |-> FALSE]
    ELSE LET sorted == SortSeq(uids, LAMBDA a, b : a < b)
             st == ScanUids([items |-> <<>>, range_start |-> sorted[1],
                             range_end |-> sorted[1], panicked |-> FALSE],
                            Tail(sorted), overflow_checks)
         IN IF st.panicked THEN [items |-> <<>>, panicked |-> TRUE]
            ELSE [items |-> Append(st.items, Item(st.range_start, st.range_end)),
                  panicked |-> FALSE]

\* bulk_move, bulk_add_flags, ... call uids_to_sequence(uids)
UidsToSequence ==
    /\ seq_call.pc = "called"
    /\ LET out == uids_to_sequence(seq_call.uids, seq_call.overflow_checks)
       IN seq_call' = [seq_call EXCEPT !.pc = "returned", !.items = out.items,
                                      !.panicked = out.panicked]

\* the next call, with any list
UidsToSequenceAgain ==
    /\ seq_call.pc = "returned"
    /\ \E uids \in UidLists :
           seq_call' = [NoSeqCall EXCEPT !.overflow_checks = seq_call.overflow_checks,
                                        !.uids = uids]

NextSequence ==
    \/ UidsToSequence
    \/ UidsToSequenceAgain

\* =====================================================================
\* cleanup_old_emails on the clock in seconds (cache/mod.rs:410-426), with
\* the rows as store_header writes them (cache/mod.rs:250-276)
\* =====================================================================
SecondsPerDay == 86400
MaxHalfDays == 5
MaxDays == 2

HalfDay == SecondsPerDay \div 2

\* the date of a message received long ago, as parse_date_to_timestamp gives it
Historical == 0 - 365 * SecondsPerDay

NoRow == [present |-> FALSE, cached_at |-> 0, date_timestamp |-> 0]
NoRetention == [now |-> 0, rows |-> [k \in CacheKeys |-> NoRow],
                last |-> [days |-> 0, returned |-> 0]]

\* store_header at the time now of a message dated date: INSERT OR REPLACE
\* with date_timestamp = parse_date_to_timestamp(header.date), cached_at = now
RetentionStoreHeader(k, old) ==
    /\ retention' = [retention EXCEPT !.rows[k] =
           [present |-> TRUE, cached_at |-> retention.now,
            date_timestamp |-> IF old THEN Historical ELSE retention.now]]

\* time passes
Elapse ==
    /\ retention.now < MaxHalfDays * HalfDay
    /\ retention' = [retention EXCEPT !.now = @ + HalfDay]

\* DELETE FROM emails WHERE cached_at < ?1
IsOldByDate(row, cutoff) == row.present /\ row.date_timestamp < cutoff
IsOld(row, cutoff) == row.present /\ row.cached_at < cutoff

\* days == 0 returns Ok(0); else cutoff = now - days * 24 * 60 * 60, the
\* DELETE, and Ok(deleted)
CleanupOld(days) ==
    /\ days \in 0..MaxDays
    /\ LET cutoff == retention.now - days * SecondsPerDay
           gone == IF days = 0 THEN {}
                   ELSE {k \in CacheKeys : IsOld(retention.rows[k], cutoff)}
       IN retention' = [retention EXCEPT
              !.rows = [k \in CacheKeys |-> IF k \in gone THEN NoRow ELSE retention.rows[k]],
              !.last = [days |-> days, returned |-> Cardinality(gone)]]

NextRetention ==
    \/ \E k \in CacheKeys, old \in BOOLEAN : RetentionStoreHeader(k, old)
    \/ Elapse
    \/ \E days \in 0..MaxDays : CleanupOld(days)

\* =====================================================================
\* The result of send_email and the Sent copy (lib.rs:449-487,
\* imap/client.rs:580-600)
\* =====================================================================
NoSendCall == [pc |-> "idle", exists |-> {}, broken |-> FALSE, next |-> 1,
               stored |-> <<>>, res |-> "-", log |-> "-"]

\* what the server does with an APPEND to folder: NO when it has no such
\* mailbox; else the message is stored and OK is answered, or the connection
\* fails before the message is stored, or after it and the answer is lost;
\* on a failed connection every APPEND fails
AppendAnswers(call, folder) ==
    IF call.broken THEN {"transport"}
    ELSE IF folder \notin call.exists THEN {"no"}
    ELSE {"ok", "transport", "stored, answer lost"}

\* smtp_client.send_email(email).await? ; then clients.get(account_id)
SendSmtp(sent, registered) ==
    /\ send_call.pc = "idle"
    /\ send_call' =
           IF ~sent THEN [send_call EXCEPT !.pc = "returned", !.res = "Err"]
           ELSE IF ~registered THEN [send_call EXCEPT !.pc = "returned", !.res = "Ok"]
           ELSE [send_call EXCEPT !.pc = "append"]

\* Ok(_) => return Ok(()), Err(_) => continue
ProbeGoesOnAlways(resp) == TRUE
ProbeGoesOn(resp) == resp # "ok"

\* one sess.append(folder_name, None, None, message) of append_to_sent; when
\* the probing ends send_email logs the outcome and returns Ok(())
AppendProbe(resp) ==
    /\ send_call.pc = "append"
    /\ LET folder == SentFolders[send_call.next]
           after == [send_call EXCEPT
                        !.stored = IF resp \in {"ok", "stored, answer lost"}
                                   THEN Append(@, folder) ELSE @,
                        !.broken = @ \/ resp \in {"transport", "stored, answer lost"},
                        !.next = @ + 1]
       IN /\ resp \in AppendAnswers(send_call, folder)
          /\ send_call' =
                 IF ~ProbeGoesOn(resp)
                 THEN [after EXCEPT !.pc = "returned", !.res = "Ok",
                                    !.log = "Saved to Sent folder"]
                 ELSE IF after.next > Len(SentFolders)
                 THEN [after EXCEPT !.pc = "returned", !.res = "Ok",
                                    !.log = "Failed to save to Sent"]
                 ELSE after

\* the next send_email on the same server, on a session that works
SendAgain ==
    /\ send_call.pc = "returned"
    /\ send_call' = [NoSendCall EXCEPT !.exists = send_call.exists]

NextSend ==
    \/ \E sent \in BOOLEAN, registered \in BOOLEAN : SendSmtp(sent, registered)
    \/ \E resp \in {"ok", "no", "transport", "stored, answer lost"} : AppendProbe(resp)
    \/ SendAgain

\* =====================================================================
\* decode_imap_utf7 and encode_imap_utf7 (imap/client.rs:1163-1283); a wire
\* name is a sequence of ASCII codes, a decoded name the sequence of its
\* UTF-16 code units
\* =====================================================================
MaxWireLen == 6

\* the characters & - A P w
WireChars == {38, 45, 65, 80, 119}
WireNames == UNION {[1..n -> WireChars] : n \in 1..MaxWireLen}

NoUtf7 == [pc |-> "wire", wire |-> <<>>, name |-> <<>>, rewire |-> <<>>, back |-> <<>>]

\* the value of a character in the standard base64 alphabet, -1 outside it
B64Val(c) ==
    CASE c \in 65..90 -> c - 65
      [] c \in 97..122 -> c - 71
      [] c \in 48..57 -> c + 4
      [] c = 43 -> 62
      [] c = 47 -> 63
      [] OTHER -> -1

\* the character of a base64 value
B64Char(v) ==
    CASE v < 26 -> v + 65
      [] v < 52 -> v + 71
      [] v < 62 -> v - 4
      [] v = 62 -> 43
      [] OTHER -> 47

\* encoded.replace(',', "/")
CommaToSlash(chars) == [i \in 1..Len(chars) |-> IF chars[i] = 44 THEN 47 ELSE chars[i]]

\* STANDARD.decode of the padded text: <<-1>> for an error (a character
\* outside the alphabet, a length of 1 mod 4, bits set after the last byte),
\* else the bytes
RECURSIVE B64Decode(_)
B64Decode(chars) ==
    LET n == Len(chars)
        v(i) == B64Val(chars[i])
    IN IF n = 0 THEN <<>>
       ELSE IF \E i \in 1..n : v(i) = -1 THEN <<-1>>
       ELSE IF n = 1 THEN <<-1>>
       ELSE IF n = 2
       THEN IF v(2) % 16 # 0 THEN <<-1>> ELSE <<v(1) * 4 + v(2) \div 16>>
       ELSE IF n = 3
       THEN IF v(3) % 4 # 0 THEN <<-1>>
            ELSE <<v(1) * 4 + v(2) \div 16, (v(2) % 16) * 16 + v(3) \div 4>>
       ELSE LET rest == B64Decode(SubSeq(chars, 5, n))
            IN IF rest = <<-1>> THEN <<-1>>
               ELSE <<v(1) * 4 + v(2) \div 16, (v(2) % 16) * 16 + v(3) \div 4,
                      (v(3) % 4) * 64 + v(4)>> \o rest

\* bytes.chunks(2) as big-endian u16, a last single byte dropped
RECURSIVE Utf16Units(_)
Utf16Units(bytes) ==
    IF Len(bytes) < 2 THEN <<>>
    ELSE <<bytes[1] * 256 + bytes[2]>> \o Utf16Units(SubSeq(bytes, 3, Len(bytes)))

\* String::from_utf16 succeeds: every surrogate is half of a pair
RECURSIVE WellFormedUtf16(_)
WellFormedUtf16(units) ==
    IF units = <<>> THEN TRUE
    ELSE IF units[1] \in 55296..56319
    THEN /\ Len(units) >= 2
         /\ units[2] \in 56320..57343
         /\ WellFormedUtf16(SubSeq(units, 3, Len(units)))
    ELSE IF units[1] \in 56320..57343 THEN FALSE
    ELSE WellFormedUtf16(Tail(units))

\* what an &...- sequence with the text encoded between decodes to
DecodeShift(encoded) ==
    IF encoded = <<>> THEN <<38>>
    ELSE LET bytes == B64Decode(CommaToSlash(encoded))
             units == Utf16Units(bytes)
         IN IF bytes # <<-1>> /\ WellFormedUtf16(units) THEN units
            ELSE <<38>> \o encoded \o <<45>>

\* the index of the first '-' of chars, or Len(chars) + 1
RECURSIVE FirstDash(_, _)
FirstDash(chars, i) ==
    IF i > Len(chars) \/ chars[i] = 45 THEN i ELSE FirstDash(chars, i + 1)

RECURSIVE decode_imap_utf7(_)
decode_imap_utf7(input) ==
    IF input = <<>> THEN <<>>
    ELSE IF Head(input) = 38
    THEN LET d == FirstDash(input, 2)
         IN DecodeShift(SubSeq(input, 2, d - 1))
               \o decode_imap_utf7(SubSeq(input, d + 1, Len(input)))
    ELSE <<Head(input)>> \o decode_imap_utf7(Tail(input))

\* input.encode_utf16().flat_map(|u| u.to_be_bytes())
RECURSIVE Utf16Bytes(_)
Utf16Bytes(units) ==
    IF units = <<>> THEN <<>>
    ELSE <<Head(units) \div 256, Head(units) % 256>> \o Utf16Bytes(Tail(units))

\* STANDARD.encode(..).trim_end_matches('=')
RECURSIVE B64Encode(_)
B64Encode(bytes) ==
    LET n == Len(bytes)
    IN IF n = 0 THEN <<>>
       ELSE IF n = 1
       THEN <<B64Char(bytes[1] \div 4), B64Char((bytes[1] % 4) * 16)>>
       ELSE IF n = 2
       THEN <<B64Char(bytes[1] \div 4),
              B64Char((bytes[1] % 4) * 16 + bytes[2] \div 16),
              B64Char((bytes[2] % 16) * 4)>>
       ELSE <<B64Char(bytes[1] \div 4),
              B64Char((bytes[1] % 4) * 16 + bytes[2] \div 16),
              B64Char((bytes[2] % 16) * 4 + bytes[3] \div 64),
              B64Char(bytes[3] % 64)>> \o B64Encode(SubSeq(bytes, 4, n))

\* format!("&{}-", modified), with , for /
encode_utf16_to_imap_base64(units) ==
    LET base64 == B64Encode(Utf16Bytes(units))
    IN <<38>> \o [i \in 1..Len(base64) |-> IF base64[i] = 47 THEN 44 ELSE base64[i]]
            \o <<45>>

\* a literal & becomes &-
AmpersandPlain(c) == <<c>>
AmpersandWire(c) == <<38, 45>>

\* the loop of encode_imap_utf7 from the characters left and the pending
\* non_ascii text
RECURSIVE EncodeFrom(_, _)
EncodeFrom(input, non_ascii) ==
    LET flush == IF non_ascii = <<>> THEN <<>> ELSE encode_utf16_to_imap_base64(non_ascii)
    IN IF input = <<>> THEN flush
       ELSE LET c == Head(input)
            IN IF c = 38 THEN flush \o AmpersandWire(c) \o EncodeFrom(Tail(input), <<>>)
               ELSE IF c \in 32..126 THEN flush \o <<c>> \o EncodeFrom(Tail(input), <<>>)
               ELSE EncodeFrom(Tail(input), Append(non_ascii, c))

encode_imap_utf7(input) == EncodeFrom(input, <<>>)

\* list_folders decodes the name of a LIST response
ListFolders ==
    /\ utf7.pc = "wire"
    /\ utf7' = [utf7 EXCEPT !.pc = "listed", !.name = decode_imap_utf7(utf7.wire)]

\* select_folder encodes the name for SELECT
SelectFolder ==
    /\ utf7.pc = "listed"
    /\ utf7' = [utf7 EXCEPT !.pc = "selected", !.rewire = encode_imap_utf7(utf7.name)]

\* the name sent is decoded as a LIST response carrying it would be
ListAgain ==
    /\ utf7.pc = "selected"
    /\ utf7' = [utf7 EXCEPT !.pc = "relisted", !.back = decode_imap_utf7(utf7.rewire)]

NextUtf7 ==
    \/ ListFolders
    \/ SelectFolder
    \/ ListAgain

\* =====================================================================
\* decode_rfc2047 (imap/client.rs:914-1009) on header values put together
\* from tokens; a string is the sequence of its character codes
\* =====================================================================
MaxTokens == 4

\* the tokens a header value is made of: two well-formed encoded words, a
\* token with a two-letter encoding, blank, tab, a letter, an equals sign
\* and a letter outside ASCII
TokenKinds == {"=?utf-8?Q?a?=", "=?utf-8?B?YQ==?=", "=?utf-8?QQ?a?=", " ", "tab", "x", "=", "e acute"}

TokenChars(tok) ==
    CASE tok = "=?utf-8?Q?a?=" -> <<61, 63, 117, 116, 102, 45, 56, 63, 81, 63, 97, 63, 61>>
      [] tok = "=?utf-8?B?YQ==?=" ->
             <<61, 63, 117, 116, 102, 45, 56, 63, 66, 63, 89, 81, 61, 61, 63, 61>>
      [] tok = "=?utf-8?QQ?a?=" -> <<61, 63, 117, 116, 102, 45, 56, 63, 81, 81, 63, 97, 63, 61>>
      [] tok = " " -> <<32>>
      [] tok = "tab" -> <<9>>
      [] tok = "x" -> <<120>>
      [] tok = "=" -> <<61>>
      [] OTHER -> <<233>>

HeaderValues == UNION {[1..n -> TokenKinds] : n \in 1..MaxTokens}

NoHeader == [pc |-> "raw", tokens |-> <<>>, out |-> <<>>, panicked |-> FALSE]

\* the result of a panic
Panic == <<-1>>

\* a \o b unless one of them panicked
Cat(a, b) == IF a = Panic \/ b = Panic THEN Panic ELSE a \o b

\* the length in bytes of the UTF-8 form of a character
Utf8Len(c) == IF c < 128 THEN 1 ELSE IF c < 2048 THEN 2 ELSE 3

RECURSIVE Utf8Size(_)
Utf8Size(chars) == IF chars = <<>> THEN 0 ELSE Utf8Len(Head(chars)) + Utf8Size(Tail(chars))

\* &input[start..]: start is an index into chars and is applied to the
\* bytes of input; the slice panics when that byte is inside a character
ByteSliceFrom(chars, start) ==
    IF \E j \in 0..Len(chars) : Utf8Size(SubSeq(chars, 1, j)) = start
    THEN LET j == CHOOSE j \in 0..Len(chars) : Utf8Size(SubSeq(chars, 1, j)) = start
         IN SubSeq(chars, j + 1, Len(chars))
    ELSE Panic

\* to_ascii_uppercase, to_ascii_lowercase
AsciiUpper(c) == IF c \in 97..122 THEN c - 32 ELSE c
AsciiLower(c) == IF c \in 65..90 THEN c + 32 ELSE c

\* the value of a hexadecimal digit, -1 for another character
HexVal(c) ==
    CASE c \in 48..57 -> c - 48
      [] c \in 65..70 -> c - 55
      [] c \in 97..102 -> c - 87
      [] OTHER -> -1

\* decode_quoted_printable: = takes the two characters after it, a byte
\* when they are hexadecimal digits and nothing else; every other character
\* is one byte
RECURSIVE decode_quoted_printable(_)
decode_quoted_printable(input) ==
    IF input = <<>> THEN <<>>
    ELSE IF Head(input) = 61
    THEN LET hex == SubSeq(input, 2, IF Len(input) >= 3 THEN 3 ELSE Len(input))
             rest == SubSeq(input, 2 + Len(hex), Len(input))
         IN (IF Len(hex) = 2 /\ HexVal(hex[1]) # -1 /\ HexVal(hex[2]) # -1
             THEN <<HexVal(hex[1]) * 16 + HexVal(hex[2])>> ELSE <<>>)
            \o decode_quoted_printable(rest)
    ELSE <<Head(input) % 256>> \o decode_quoted_printable(Tail(input))

\* STANDARD.decode(text): padding is required; <<-1>> for an error
B64DecodePadded(text) ==
    LET n == Len(text)
        pads == IF n >= 2 /\ text[n] = 61 /\ text[n - 1] = 61 THEN 2
                ELSE IF n >= 1 /\ text[n] = 61 THEN 1 ELSE 0
        body == SubSeq(text, 1, n - pads)
    IN IF n % 4 # 0 THEN <<-1>>
       ELSE IF pads > 0 /\ Len(body) % 4 # 4 - pads THEN <<-1>>
       ELSE B64Decode(body)

\* String::from_utf8_lossy: ASCII bytes and two-byte sequences are decoded,
\* any other byte becomes U+FFFD
RECURSIVE Utf8Lossy(_)
Utf8Lossy(bytes) ==
    IF bytes = <<>> THEN <<>>
    ELSE IF bytes[1] < 128 THEN <<bytes[1]>> \o Utf8Lossy(Tail(bytes))
    ELSE IF bytes[1] \in 194..223 /\ Len(bytes) >= 2 /\ bytes[2] \in 128..191
    THEN <<(bytes[1] - 192) * 64 + (bytes[2] - 128)>> \o Utf8Lossy(SubSeq(bytes, 3, Len(bytes)))
    ELSE <<65533>> \o Utf8Lossy(Tail(bytes))

\* the decoded text of =?charset?encoding?text?= , or the token itself when
\* its text cannot be decoded
DecodeWord(charset, encoding, text, original) ==
    LET bytes == IF encoding = 66 THEN B64DecodePadded(text)
                 ELSE IF encoding = 81
                 THEN decode_quoted_printable([i \in 1..Len(text) |->
                                                  IF text[i] = 95 THEN 32 ELSE text[i]])
                 ELSE <<-1>>
        lower == [i \in 1..Len(charset) |-> AsciiLower(charset[i])]
    IN IF bytes = <<-1>> THEN original
       ELSE IF lower \in {<<105, 115, 111, 45, 56, 56, 53, 57, 45, 49>>,
                          <<108, 97, 116, 105, 110, 49>>}
       THEN bytes
       ELSE Utf8Lossy(bytes)

\* the first index from i on (counted from 0) where c stands, or the length
RECURSIVE FindChar(_, _, _)
FindChar(chars, i, c) ==
    IF i >= Len(chars) \/ chars[i + 1] = c THEN i ELSE FindChar(chars, i + 1, c)

\* while i + 1 < len && !(chars[i] == '?' && chars[i + 1] == '=') { i += 1 }
RECURSIVE FindEnd(_, _)
FindEnd(chars, i) ==
    IF i + 1 < Len(chars) /\ ~(chars[i + 1] = 63 /\ chars[i + 2] = 61)
    THEN FindEnd(chars, i + 1) ELSE i

\* the loop after an encoded word: a blank or tab followed by = is skipped
\* and ends the loop, any other blank or tab is copied; the result is the
\* text copied and the index reached
RECURSIVE SkipWhitespace(_, _, _)
SkipWhitespace(chars, i, copied) ==
    IF i < Len(chars) /\ chars[i + 1] \in {32, 9}
    THEN IF i + 1 < Len(chars) /\ chars[i + 2] = 61
         THEN [copied |-> copied, i |-> i + 1]
         ELSE SkipWhitespace(chars, i + 1, Append(copied, chars[i + 1]))
    ELSE [copied |-> copied, i |-> i]

\* the while loop of decode_rfc2047 from index i (counted from 0): what it
\* appends to result
RECURSIVE DecodeFrom(_, _)
DecodeFrom(chars, i) ==
    LET len == Len(chars)
    IN IF i >= len THEN <<>>
       ELSE IF i + 1 < len /\ chars[i + 1] = 61 /\ chars[i + 2] = 63
       THEN LET start == i
                charset_start == i + 2
                charset_end == FindChar(chars, charset_start, 63)
                enc_at == charset_end + 1
                after_enc == enc_at + 1
                text_start == after_enc + 1
                text_end == FindEnd(chars, text_start)
                after == text_end + 2
            IN IF charset_end >= len THEN ByteSliceFrom(chars, start)
               ELSE IF enc_at >= len THEN ByteSliceFrom(chars, start)
               ELSE IF after_enc >= len \/ chars[after_enc + 1] # 63
               THEN Cat(ByteSliceFrom(chars, start), DecodeFrom(chars, after_enc))
               ELSE IF text_end + 1 >= len THEN ByteSliceFrom(chars, start)
               ELSE LET word == DecodeWord(SubSeq(chars, charset_start + 1, charset_end),
                                           AsciiUpper(chars[enc_at + 1]),
                                           SubSeq(chars, text_start + 1, text_end),
                                           SubSeq(chars, start + 1, after))
                        ws == SkipWhitespace(chars, after, <<>>)
                    IN Cat(word \o ws.copied, DecodeFrom(chars, ws.i))
       ELSE Cat(<<chars[i + 1]>>, DecodeFrom(chars, i + 1))

decode_rfc2047(input) == DecodeFrom(input, 0)

\* decode_header_value decodes the header value
DecodeHeader ==
    /\ header.pc = "raw"
    /\ LET chars == Flatten([i \in 1..Len(header.tokens) |-> TokenChars(header.tokens[i])])
           out == decode_rfc2047(chars)
       IN header' = [header EXCEPT !.pc = "decoded",
                                   !.out = IF out = Panic THEN <<>> ELSE out,
                                   !.panicked = (out = Panic)]

\* the next header value: the last one with a token more, or a new one
NextHeaderValue ==
    /\ header.pc = "decoded"
    /\ \E tok \in TokenKinds :
           header' = [NoHeader EXCEPT !.tokens = IF Len(header.tokens) < MaxTokens
                                                 THEN Append(header.tokens, tok)
                                                 ELSE <<tok>>]

NextHeader ==
    \/ DecodeHeader
    \/ NextHeaderValue

\* =====================================================================
\* cloud::crypto encrypt and decrypt (cloud/crypto.rs:19-83) as
\* SyncManager::push and pull use them (cloud/sync.rs:113-159).  AES-256-GCM
\* is taken to authenticate: decrypting succeeds exactly for an untouched
\* ciphertext under the key it was made with.
\* =====================================================================
Passwords == {"k1", "k2"}
Plaintexts == {"accounts", "ai config"}

\* the blob the server holds: whether it is base 64, whether it holds the
\* 28 bytes of salt and nonce, the key it was made with, whether salt,
\* nonce, ciphertext and tag are as encrypt made them, and the plaintext
NoBlob == [b64 |-> FALSE, length |-> "short", key |-> "-", intact |-> FALSE,
           utf8 |-> FALSE, plaintext |-> "-"]

NoVault == [blob |-> NoBlob, encrypted |-> NoBlob, password |-> "-", result |-> [ok |-> FALSE, value |-> "-"],
            refused |-> {}]

encrypt(plaintext, password) ==
    [b64 |-> TRUE, length |-> "full", key |-> password, intact |-> TRUE,
     utf8 |-> TRUE, plaintext |-> plaintext]

\* the blob is what encrypt made under this password
ValidUnder(blob, password) ==
    blob.b64 /\ blob.length = "full" /\ blob.intact /\ blob.key = password

decrypt(encrypted, password) ==
    IF ~encrypted.b64 THEN [ok |-> FALSE, value |-> "Base64 decode error"]
    ELSE IF encrypted.length = "short"
    THEN [ok |-> FALSE, value |-> "Invalid encrypted data: too short"]
    ELSE IF ~(encrypted.intact /\ encrypted.key = password)
    THEN [ok |-> FALSE, value |-> "Decryption failed: wrong password or corrupted data"]
    ELSE IF ~encrypted.utf8 THEN [ok |-> FALSE, value |-> "UTF-8 decode error"]
    ELSE [ok |-> TRUE, value |-> encrypted.plaintext]

\* SyncManager::push stores an encrypted blob on the server
VaultPush(plaintext, password) ==
    vault' = [vault EXCEPT !.blob = encrypt(plaintext, password)]

\* the blob changes on the way or on the server: a byte of it is altered,
\* it is cut before the end of the nonce, or it stops being base 64
VaultTamper ==
    /\ vault.blob # NoBlob
    /\ \/ vault' = [vault EXCEPT !.blob.intact = FALSE]
       \/ vault' = [vault EXCEPT !.blob.length = "short", !.blob.intact = FALSE]
       \/ vault' = [vault EXCEPT !.blob.b64 = FALSE]

\* SyncManager::pull decrypts what the server returned (encrypted and
\* password are the arguments of that call); refused collects
\* the errors returned for blobs that encrypt did not make under the password
VaultPull(password) ==
    /\ vault.blob # NoBlob
    /\ LET result == decrypt(vault.blob, password)
       IN vault' = [vault EXCEPT !.encrypted = vault.blob,
                                 !.password = password,
                                 !.result = result,
                                 !.refused = IF ValidUnder(vault.blob, password) \/ result.ok
                                             THEN @ ELSE @ \cup {result.value}]

NextVault ==
    \/ \E plaintext \in Plaintexts, password \in Passwords : VaultPush(plaintext, password)
    \/ VaultTamper
    \/ \E password \in Passwords : VaultPull(password)

\* =====================================================================
\* extract_json (ai/categorizer.rs:211-220) on the responses that
\* parse_category_result hands to it; a string is the sequence of its
\* characters
\* =====================================================================
MaxText == 5
TextChars == {"{", "}", "a"}
Texts == UNION {[1..n -> TextChars] : n \in 1..MaxText}

NoReply == [pc |-> "response", text |-> <<>>, out |-> <<>>]

\* text.find('{') and text.rfind('}'), 0 for None
Find(text, c) ==
    IF \E i \in 1..Len(text) : text[i] = c
    THEN CHOOSE i \in 1..Len(text) : text[i] = c /\ \A j \in 1..(i - 1) : text[j] # c
    ELSE 0

RFind(text, c) ==
    IF \E i \in 1..Len(text) : text[i] = c
    THEN CHOOSE i \in 1..Len(text) : text[i] = c /\ \A j \in (i + 1)..Len(text) : text[j] # c
    ELSE 0

\* the text is cut whatever the order of the two braces
BracesInAnyOrder(start, end) == TRUE

\* if end > start
BracesInOrder(start, end) == end > start

extract_json(text) ==
    LET start == Find(text, "{")
        end == RFind(text, "}")
    IN IF start # 0 /\ end # 0 /\ BracesInOrder(start, end)
       THEN SubSeq(text, start, end)
       ELSE text

\* parse_category_result extracts the JSON of the response
ExtractJson ==
    /\ reply.pc = "response"
    /\ reply' = [reply EXCEPT !.pc = "extracted", !.out = extract_json(reply.text)]

\* the provider completes the next request
NextResponse ==
    /\ reply.pc = "extracted"
    /\ \E c \in TextChars :
           reply' = [NoReply EXCEPT !.text = IF Len(reply.text) < MaxText
                                             THEN Append(reply.text, c) ELSE <<c>>]

NextReply ==
    \/ ExtractJson
    \/ NextResponse

\* =====================================================================
\* ImapClient::delete_email and bulk_delete (imap/client.rs:526-553,
\* 750-781): SELECT, UID STORE +FLAGS (\Deleted), EXPUNGE
\* =====================================================================
DeleteAnswers == {"ok", "select no", "store no", "expunge no"}

\* every message of the folder is gone, there, or there with \Deleted
NoMbox == [msgs |-> [u \in Messages |-> "there"], passed |-> {}, res |-> "-"]

\* UID STORE uids +FLAGS (\Deleted): the listed messages that exist get the flag
StoreDeleted(msgs, uids) ==
    [u \in Messages |-> IF u \in uids /\ msgs[u] # "gone" THEN "\\Deleted" ELSE msgs[u]]

\* EXPUNGE removes every message of the selected folder that has \Deleted
Expunge(msgs) == [u \in Messages |-> IF msgs[u] = "\\Deleted" THEN "gone" ELSE msgs[u]]

\* the three commands of delete_email and bulk_delete; each stops at the
\* first one the server refuses
UidDelete(uids, answer) ==
    mbox' = [msgs |-> CASE answer \in {"select no", "store no"} -> mbox.msgs
                        [] answer = "expunge no" -> StoreDeleted(mbox.msgs, uids)
                        [] OTHER -> Expunge(StoreDeleted(mbox.msgs, uids)),
             passed |-> uids,
             res |-> IF answer = "ok" THEN "Ok" ELSE "Err"]

ImapDeleteEmail(uid, answer) == UidDelete({uid}, answer)

\* bulk_delete returns Ok at once for an empty list
ImapBulkDelete(uids, answer) ==
    IF uids = {} THEN mbox' = [mbox EXCEPT !.passed = {}, !.res = "Ok"]
    ELSE UidDelete(uids, answer)

\* another client of the account sets \Deleted on a message, or a message arrives
OtherClient(uid) ==
    /\ mbox.msgs[uid] # "\\Deleted"
    /\ mbox' = [mbox EXCEPT !.msgs[uid] = IF @ = "there" THEN "\\Deleted" ELSE "there"]

NextMbox ==
    \/ \E uid \in Messages, answer \in DeleteAnswers : ImapDeleteEmail(uid, answer)
    \/ \E uids \in SUBSET Messages, answer \in DeleteAnswers : ImapBulkDelete(uids, answer)
    \/ \E uid \in Messages : OtherClient(uid)

\* =====================================================================
\* JmapClient::send_email (jmap/client.rs:736-765): Email/import into the
\* Sent mailbox, then the identity, then EmailSubmission/create
\* =====================================================================
MaxMails == 3
Mails == 1..MaxMails

\* how far the server lets a send_email get
SendAnswers == {"ok", "Failed to find mailbox", "Failed to import email",
                "Imported email has no ID", "No identity found", "Failed to submit email"}

NoSent == [m \in Mails |-> [in_sent |-> FALSE, submitted |-> FALSE, res |-> "-"]]

\* the email is in Sent once Email/import succeeded
Imported(answer) == answer \notin {"Failed to find mailbox", "Failed to import email"}

\* JmapClient::send_email for message m; every step returns its error with ?
JmapSendEmail(m, answer) ==
    /\ jmap_sent[m].res = "-"
    /\ jmap_sent' = [jmap_sent EXCEPT ![m] = [in_sent |-> Imported(answer),
                                               submitted |-> answer = "ok",
                                               res |-> IF answer = "ok" THEN "Ok" ELSE answer]]

\* the user discards a message that was not sent, and writes it again
JmapSendRetry(m) ==
    /\ jmap_sent[m].res \notin {"-", "Ok"}
    /\ jmap_sent' = [jmap_sent EXCEPT ![m].res = "-"]

NextJmapSend ==
    \/ \E m \in Mails, answer \in SendAnswers : JmapSendEmail(m, answer)
    \/ \E m \in Mails : JmapSendRetry(m)

\* =====================================================================
\* JmapClient::bulk_mark_read .. bulk_move (jmap/client.rs:817-870): one
\* Email/set request per listed email, in order, left at the first error
\* =====================================================================
BulkOps == {"bulk_mark_read", "bulk_mark_unread", "bulk_mark_flagged", "bulk_delete", "bulk_move"}

\* the lists of at most two email ids
BulkLists == UNION {[1..n -> Mails] : n \in 0..2}

NoBulk == [op |-> "-", email_ids |-> <<>>, at |-> 0, changed |-> {}, res |-> "-"]

\* the operation is called: without a client it fails at once, with an
\* empty list it succeeds at once
JmapBulk(op, email_ids, connected) ==
    /\ jmap_bulk.res # "running"
    /\ jmap_bulk' = [op |-> op, email_ids |-> email_ids, at |-> 1, changed |-> {},
                     res |-> IF ~connected THEN "Err"
                             ELSE IF email_ids = <<>> THEN "Ok" ELSE "running"]

\* the request for the next email of the list is answered: an error is
\* returned with ?, a success changes the email and the loop goes on
JmapBulkRequest(ok) ==
    /\ jmap_bulk.res = "running"
    /\ jmap_bulk' =
           IF ~ok THEN [jmap_bulk EXCEPT !.res = "Err"]
           ELSE [jmap_bulk EXCEPT !.at = @ + 1,
                                  !.changed = @ \cup {jmap_bulk.email_ids[jmap_bulk.at]},
                                  !.res = IF jmap_bulk.at = Len(jmap_bulk.email_ids)
                                          THEN "Ok" ELSE "running"]

NextBulk ==
    \/ \E op \in BulkOps, email_ids \in BulkLists, connected \in BOOLEAN :
           JmapBulk(op, email_ids, connected)
    \/ \E ok \in BOOLEAN : JmapBulkRequest(ok)

\* =====================================================================
\* storage::save_account and delete_account (storage/mod.rs:104-154): read
\* accounts.json, parse, change, serialize, fs::write.  The commands
\* save_account and delete_saved_account run on the main thread
\* (lib.rs:504-512); cloud_sync_pull, an async command, calls
\* storage::save_account from a worker (lib.rs:1942-1953).
\* =====================================================================
MaxVersion == 2
SavedIds == {"a", "b"}
Writers == {"main", "pull"}

\* accounts.json: missing, a document, or content that does not parse; a
\* document gives for every id the version of its entry, 0 when it has none
NoAccounts == [i \in SavedIds |-> 0]
NoFile == [kind |-> "none", accounts |-> NoAccounts]
Garbled == [kind |-> "garbled", accounts |-> NoAccounts]

IdleWriter == [pc |-> "idle", op |-> "-", id |-> "-", before |-> NoFile,
               local |-> NoAccounts, res |-> "-", overlapped |-> FALSE]
NoConfig == [file |-> NoFile, writer |-> [p \in Writers |-> IdleWriter]]

\* save_account up to the serialized document: a missing file and content
\* that does not parse both give the default, empty config
\* (unwrap_or_default); the entry of the id is replaced or pushed
SaveAccountRead(p, id, v) ==
    /\ config.writer[p].pc = "idle"
    /\ config' = [config EXCEPT !.writer[p] =
           [pc |-> "write", op |-> "save", id |-> id, before |-> config.file,
            local |-> [(IF config.file.kind = "doc" THEN config.file.accounts
                        ELSE NoAccounts) EXCEPT ![id] = v],
            res |-> "-", overlapped |-> FALSE]]

\* delete_account up to the serialized document: Ok at once without a file,
\* "Failed to parse config" for content that does not parse
DeleteAccountRead(p, id) ==
    /\ p = "main"
    /\ config.writer[p].pc = "idle"
    /\ config' = [config EXCEPT !.writer[p] =
           [pc |-> IF config.file.kind = "doc" THEN "write" ELSE "idle",
            op |-> "delete", id |-> id, before |-> config.file,
            local |-> [config.file.accounts EXCEPT ![id] = 0],
            res |-> CASE config.file.kind = "none" -> "Ok"
                      [] config.file.kind = "garbled" -> "Err"
                      [] OTHER -> "-",
            overlapped |-> FALSE]]

\* fs::write(&config_path, content): the file is created or truncated and
\* the document written; it may fail before the file is touched or after
\* part of it was written.  overlapped marks a writer that has read the
\* file and not yet written when another one changes it.
ConfigWrite(p, outcome) ==
    /\ config.writer[p].pc = "write"
    /\ config' = [file |-> CASE outcome = "ok" -> [kind |-> "doc",
                                                   accounts |-> config.writer[p].local]
                             [] outcome = "torn" -> Garbled
                             [] OTHER -> config.file,
                  writer |-> [q \in Writers |->
                      IF q = p
                      THEN [config.writer[p] EXCEPT !.pc = "idle",
                                                    !.res = IF outcome = "ok" THEN "Ok" ELSE "Err"]
                      ELSE IF config.writer[q].pc = "write" /\ outcome # "create failed"
                      THEN [config.writer[q] EXCEPT !.overlapped = TRUE]
                      ELSE config.writer[q]]]

NextConfig ==
    \/ \E p \in Writers, id \in SavedIds, v \in 1..MaxVersion : SaveAccountRead(p, id, v)
    \/ \E p \in Writers, id \in SavedIds : DeleteAccountRead(p, id)
    \/ \E p \in Writers, outcome \in {"ok", "create failed", "torn"} : ConfigWrite(p, outcome)

\* =====================================================================
\* The pagination of ImapClient::fetch_headers (imap/client.rs:205-216)
\* =====================================================================
MaxExists == 6
MaxStart == 7
MaxCount == 4

\* the inputs of the model; 237, 230 and 50 are the mailbox size and the page
\* requests of the documented scenario
ExistsValues == 0..MaxExists \cup {237}
StartValues == 0..MaxStart \cup {230}
CountValues == 0..MaxCount \cup {50}

\* u32::saturating_sub
saturating_sub(a, b) == IF a >= b THEN a - b ELSE 0

Max(a, b) == IF a >= b THEN a ELSE b

EmptyRange == [empty |-> TRUE, begin |-> 0, end |-> 0]
NoPage == [total |-> 0, start |-> 0, count |-> 0, pc |-> "idle", range |-> EmptyRange]

\* the sequence range fetch_headers sends as "begin:end" for a mailbox with
\* total messages, or EmptyRange when it returns without a FETCH
FetchRange(total, start, count) ==
    IF total = 0 THEN EmptyRange
    ELSE LET end == saturating_sub(total, start)
             begin == Max(saturating_sub(end, count), 1)
         IN IF end < begin THEN EmptyRange
            ELSE [empty |-> FALSE, begin |-> begin, end |-> end]

\* SELECT has answered with EXISTS = page.total: the range is computed
FetchHeadersRange ==
    /\ page.pc = "selected"
    /\ page' = [page EXCEPT !.pc = "fetched",
                            !.range = FetchRange(page.total, page.start, page.count)]
    /\ UNCHANGED <<regVars, cacheVars, net_op, clear_pc, imap_server, jmap_sieve, jmap_session, tool_call, cloud_auth, sieve_rt, seq_call, retention, send_call, utf7, header, vault, reply, mbox, jmap_sent, jmap_bulk, config>>

NextFetch == FetchHeadersRange

\* C8: for a folder with N >= 1 messages fetch_headers fetches exactly the
\* range [N-start-count+1 .. N-start] clamped to [1, N], never more than count
\* messages, and nothing when that range is empty.
C8_FetchRange ==
    (page.pc = "fetched" /\ page.total >= 1) =>
        LET lo == Max(page.total - page.start - page.count + 1, 1)
            hi == page.total - page.start
            size == IF page.range.empty THEN 0 ELSE page.range.end - page.range.begin + 1
        IN /\ page.range = IF hi < lo THEN EmptyRange
                           ELSE [empty |-> FALSE, begin |-> lo, end |-> hi]
           /\ size <= page.count

\* =====================================================================
\* Waiting for the server (imap/client.rs, sieve/client.rs, smtp/client.rs,
\* jmap/client.rs)
\* =====================================================================
MaxElapsed == 130

\* sieve/client.rs: const READ_TIMEOUT
READ_TIMEOUT == 30

\* the network operations of the model: the IMAP connect, an IMAP control
\* command (SELECT, STORE, ...), the IMAP fetch of a whole message, and a
\* request on each of the other channels
NetOps == {[channel |-> "imap", kind |-> "connect"],
           [channel |-> "imap", kind |-> "control"],
           [channel |-> "imap", kind |-> "large_fetch"],
           [channel |-> "sieve", kind |-> "request"],
           [channel |-> "smtp", kind |-> "request"],
           [channel |-> "jmap", kind |-> "request"]}

\* the seconds by which the clock is seen to advance
WaitSteps == {10, 30}

NoOp == [channel |-> "-", kind |-> "-", pc |-> "idle", elapsed |-> 0]

\* the timeout the code sets for an await on a channel, in seconds; 0 when the
\* await has none (TcpStream::connect, tls.connect, login, select, uid_fetch
\* ... of the IMAP client are awaited bare)
ReadTimeout(channel) ==
    CASE channel = "sieve" -> READ_TIMEOUT
      [] channel = "smtp"  -> 30
      [] channel = "jmap"  -> 30
      [] OTHER             -> 0

\* time passes while the operation is awaited
Wait(d) ==
    /\ net_op.pc = "awaiting"
    /\ net_op.elapsed + d <= MaxElapsed
    /\ ReadTimeout(net_op.channel) = 0 \/ net_op.elapsed + d <= ReadTimeout(net_op.channel)
    /\ net_op' = [net_op EXCEPT !.elapsed = @ + d]
    /\ UNCHANGED <<regVars, cacheVars, page, clear_pc, imap_server, jmap_sieve, jmap_session, tool_call, cloud_auth, sieve_rt, seq_call, retention, send_call, utf7, header, vault, reply, mbox, jmap_sent, jmap_bulk, config>>

\* the server answers, or the connection fails
ServerAnswers(ok) ==
    /\ net_op.pc = "awaiting"
    /\ net_op' = [net_op EXCEPT !.pc = IF ok THEN "completed" ELSE "failed"]
    /\ UNCHANGED <<regVars, cacheVars, page, clear_pc, imap_server, jmap_sieve, jmap_session, tool_call, cloud_auth, sieve_rt, seq_call, retention, send_call, utf7, header, vault, reply, mbox, jmap_sent, jmap_bulk, config>>

\* the timeout of the await expires: the operation returns a failure
TimedOut ==
    /\ net_op.pc = "awaiting"
    /\ ReadTimeout(net_op.channel) # 0
    /\ net_op.elapsed >= ReadTimeout(net_op.channel)
    /\ net_op' = [net_op EXCEPT !.pc = "timed out"]
    /\ UNCHANGED <<regVars, cacheVars, page, clear_pc, imap_server, jmap_sieve, jmap_session, tool_call, cloud_auth, sieve_rt, seq_call, retention, send_call, utf7, header, vault, reply, mbox, jmap_sent, jmap_bulk, config>>

NextTimeout ==
    \/ \E d \in WaitSteps : Wait(d)
    \/ \E ok \in BOOLEAN : ServerAnswers(ok)
    \/ TimedOut

\* C13: an IMAP connect or control command is awaited for at most 30 s and an
\* IMAP fetch of a whole message for at most 120 s.
C13_BoundedWait ==
    (net_op.pc = "awaiting" /\ net_op.channel = "imap") =>
        net_op.elapsed <= (IF net_op.kind = "large_fetch" THEN 120 ELSE 30)

\* ---------------------------------------------------------------------
\* Cache: properties
\* ---------------------------------------------------------------------
\* C5: every attachments row and every email_categories row refers to a
\* (folder, uid) pair that is present in emails.
C5_ReferentialIntegrity ==
    \A k \in CacheKeys :
        (attachments[k] > 0 \/ email_categories[k].present) => emails[k].present

\* C15: in every state of the cache, the table that a
\* store_email_body(folder, uid, text, html) leaves has a row for
\* (folder, uid), and when text is not empty has_email_body(folder, uid) is
\* true on it.
C15_StoreBodyUpserts ==
    \A k \in CacheKeys, text \in BOOLEAN :
        LET after == UpdateBody(emails, k, text)
        IN  /\ after[k].present
            /\ text => (after[k].present /\ after[k].body)

\* C16: a delete_category on a system category leaves the categories table
\* and the email_categories table as they were.
C16_SystemCategoryUntouched ==
    [][\A c \in SystemCategories \cap CategoryIds :
           delete_category(c) => UNCHANGED <<categories, email_categories>>]_vars

\* C17: every statement that clear commits leaves the attachments, emails
\* and sync_state tables either all empty or all as they were: no state in
\* which only some of them were emptied is left behind or visible.
C17_ClearAllOrNothing ==
    [][(ClearDeleteAttachments \/ ClearDeleteEmails \/ ClearDeleteSyncState) =>
           \/ UNCHANGED <<attachments, emails, sync_state>>
           \/ /\ \A k \in CacheKeys : attachments'[k] = 0 /\ ~emails'[k].present
              /\ \A f \in Folders : ~sync_state'[f].present]_vars

\* C18: UID MOVE is sent only to a server that advertises MOVE, and a move
\* of messages on a server that does not advertise it does not fail for
\* that reason.
C18_MoveOnlyWhenAdvertised ==
    /\ imap_server.last.wire = "UID MOVE" => imap_server.advertises_move
    /\ (imap_server.last.res = "Err" /\ ~imap_server.advertises_move) =>
           imap_server.last.wire # "UID MOVE"

\* C19: a JMAP Sieve command whose method call the server answered with
\* ["error", {type, description}, ClientId] returns a failure.
C19_MethodErrorFails ==
    jmap_sieve.last.answer = "method error" => jmap_sieve.last.res = "Err"

\* C20: after a JMAP connect the trusted host list holds exactly the hosts
\* visited in the discovery redirect chain; a host that is only the host of
\* apiUrl is not in it.
C20_TrustedIsChain ==
    jmap_session.connected =>
        jmap_session.trusted = {jmap_session.chain[i] : i \in 1..Len(jmap_session.chain)}

\* C21: an execute_mark_as_read during which an add_flags call or the cache
\* update failed does not return success.
C21_FailureIsReturned ==
    (/\ tool_call.pc = "returned"
     /\ \/ \E i \in 1..Len(tool_call.answers) : tool_call.answers[i] # "ok"
        \/ tool_call.cache = "failed")
        => ~tool_call.success

\* C22: when the last cloud command was a refresh_user, refresh_token,
\* push_data, pull_data or get_sync_status answered with HTTP 401, no token
\* is left in AUTH_STATE or in the token file.
C22_TokenClearedOn401 ==
    (/\ cloud_auth.last.answer = "401"
     /\ cloud_auth.last.cmd \in {"refresh_user", "refresh_token", "push_data",
                                 "pull_data", "get_sync_status"}) =>
        (cloud_auth.token = "none" /\ cloud_auth.disk = "none")

\* C23: the rules read back from the script written for a list of rules are
\* as many, in the same order, each with the same name, enabled flag,
\* conditions and actions.
C23_RulesRoundTrip ==
    sieve_rt.pc = "parsed" => sieve_rt.parsed = sieve_rt.rules

\* C24: for every non-empty list of UIDs uids_to_sequence returns items,
\* each a single UID or a range a:b, that denote exactly the UIDs of the
\* list.
C24_SequenceDenotesUids ==
    seq_call.pc = "returned" =>
        /\ ~seq_call.panicked
        /\ \A i \in 1..Len(seq_call.items) : seq_call.items[i][1] <= seq_call.items[i][2]
        /\ UNION {seq_call.items[i][1]..seq_call.items[i][2] : i \in 1..Len(seq_call.items)}
              = {seq_call.uids[i] : i \in 1..Len(seq_call.uids)}

\* C24, amended: the same for every non-empty list in which the largest u32
\* value does not occur twice.
C24_SequenceDenotesUidsNoOverflow ==
    (/\ seq_call.pc = "returned"
     /\ Cardinality({i \in 1..Len(seq_call.uids) : seq_call.uids[i] = MaxUid}) < 2) =>
        /\ ~seq_call.panicked
        /\ seq_call.items # <<>>
        /\ \A i \in 1..Len(seq_call.items) : seq_call.items[i][1] <= seq_call.items[i][2]
        /\ UNION {seq_call.items[i][1]..seq_call.items[i][2] : i \in 1..Len(seq_call.items)}
              = {seq_call.uids[i] : i \in 1..Len(seq_call.uids)}

\* a list with a duplicate and a run of consecutive UIDs was compacted
C24_Witness ==
    /\ seq_call.pc = "returned"
    /\ Len(seq_call.uids) = MaxUidList
    /\ \E i, j \in 1..Len(seq_call.uids) : i # j /\ seq_call.uids[i] = seq_call.uids[j]
    /\ \E i \in 1..Len(seq_call.items) : seq_call.items[i][1] < seq_call.items[i][2]

\* C25: cleanup_old_emails(0) deletes nothing and returns 0; for d > 0 it
\* deletes exactly the rows with cached_at < now - d * 86400, whatever their
\* message date, and returns their number.
C25_CleanupByCachedAt ==
    [][\A days \in 0..MaxDays :
           CleanupOld(days) =>
               LET old == {k \in CacheKeys :
                              /\ days > 0
                              /\ retention.rows[k].present
                              /\ retention.rows[k].cached_at < retention.now - days * 86400}
               IN /\ \A k \in old : ~retention'.rows[k].present
                  /\ \A k \in CacheKeys \ old : retention'.rows[k] = retention.rows[k]
                  /\ retention'.last.returned = Cardinality(old)]_vars

\* a cleanup with d > 0 deleted a row and kept a freshly cached row of a
\* message dated long before the cutoff
C25_Witness ==
    /\ retention.last.days > 0
    /\ retention.last.returned > 0
    /\ \E k \in CacheKeys :
           /\ retention.rows[k].present
           /\ retention.rows[k].date_timestamp < retention.now - retention.last.days * 86400

\* C26: a send_email whose SMTP send succeeded returns success whatever
\* the APPENDs of the Sent copy answered; when every probed name failed that
\* is only logged; and the probing stores at most one copy.
C26_SentCopyNotFatal ==
    /\ Len(send_call.stored) <= 1
    /\ (send_call.pc = "returned" /\ send_call.next > 1) => send_call.res = "Ok"
    /\ (send_call.pc = "returned" /\ send_call.next > 1 /\ send_call.stored = <<>>) =>
           (send_call.next = Len(SentFolders) + 1
            /\ send_call.log = "Failed to save to Sent")

\* the APPEND failed on every one of the six names and send_email returned
C26_Witness ==
    /\ send_call.pc = "returned"
    /\ send_call.next = Len(SentFolders) + 1
    /\ send_call.stored = <<>>
    /\ send_call.res = "Ok"

\* C27: the wire name that select_folder sends for a name decoded from a
\* LIST response is the wire name of that response.
C27_DecodeThenEncode ==
    utf7.pc \in {"selected", "relisted"} => utf7.rewire = utf7.wire

\* C27, amended: a name encoded and decoded again is the same name, and a
\* wire name that is the encoding of a name is decoded and encoded to itself.
C27_EncodeThenDecode ==
    utf7.pc = "relisted" =>
        /\ utf7.back = utf7.name
        /\ encode_imap_utf7(utf7.back) = utf7.rewire

\* a name with a character outside ASCII went through both directions
C27_Witness ==
    /\ utf7.pc = "relisted"
    /\ \E i \in 1..Len(utf7.name) : utf7.name[i] > 127
    /\ \E i \in 1..Len(utf7.name) : utf7.name[i] \in 32..126
    /\ utf7.rewire = utf7.wire

\* C28: decode_rfc2047 returns the tokens of the header value in order:
\* an encoded word as its decoded text, a blank or tab as nothing when the
\* run of blanks and tabs it stands in has an encoded word on both sides and
\* as itself otherwise, and every other token, malformed ones included, as
\* itself, once.
C28_WhitespaceAndMalformed ==
    header.pc = "decoded" =>
        LET toks == header.tokens
            n == Len(toks)
            words == {"=?utf-8?Q?a?=", "=?utf-8?B?YQ==?="}
            white == {" ", "tab"}
            between(i) ==
                \E l \in 1..(i - 1), r \in (i + 1)..n :
                    /\ toks[l] \in words /\ toks[r] \in words
                    /\ \A j \in (l + 1)..(r - 1) : toks[j] \in white
            part(i) == IF toks[i] \in words THEN <<97>>
                       ELSE IF toks[i] \in white /\ between(i) THEN <<>>
                       ELSE TokenChars(toks[i])
        IN /\ ~header.panicked
           /\ header.out = Flatten([i \in 1..n |-> part(i)])

\* C29: decrypt returns no plaintext for a blob that is not a valid
\* ciphertext under the password, and the errors it returns for such blobs
\* (wrong password, altered, cut or not base 64) are one and the same.
C29_FailsClosedUniform ==
    /\ (vault.password # "-" /\ ~ValidUnder(vault.encrypted, vault.password)) => ~vault.result.ok
    /\ \A e1, e2 \in vault.refused : e1 = e2

\* C30, as stated: for a text with exactly one balanced {...} object
\* extract_json returns that object, and for a text with no { followed later
\* by a } it returns the text.
C30_ExtractsTheObject ==
    reply.pc = "extracted" =>
        LET text == reply.text
            n == Len(text)
            depth(i, k) == Cardinality({m \in i..k : text[m] = "{"})
                           - Cardinality({m \in i..k : text[m] = "}"})
            object(i, j) == /\ text[i] = "{" /\ text[j] = "}"
                            /\ depth(i, j) = 0
                            /\ \A k \in i..(j - 1) : depth(i, k) > 0
            objects == {ij \in (1..n) \X (1..n) : ij[1] < ij[2] /\ object(ij[1], ij[2])}
        IN /\ Cardinality(objects) = 1 =>
                  \A ij \in objects : reply.out = SubSeq(text, ij[1], ij[2])
           /\ (~\E i, j \in 1..n : i < j /\ text[i] = "{" /\ text[j] = "}") =>
                  reply.out = text

\* C30, amended: for a text with a balanced {...} object and no brace
\* outside it extract_json returns that object, and for a text with no {
\* followed later by a } it returns the text.
C30_ExtractsFirstToLast ==
    reply.pc = "extracted" =>
        LET text == reply.text
            n == Len(text)
            depth(i, k) == Cardinality({m \in i..k : text[m] = "{"})
                           - Cardinality({m \in i..k : text[m] = "}"})
            object(i, j) == /\ text[i] = "{" /\ text[j] = "}"
                            /\ depth(i, j) = 0
                            /\ \A k \in i..(j - 1) : depth(i, k) > 0
        IN /\ \A i, j \in 1..n :
                  (/\ i < j /\ object(i, j)
                   /\ \A m \in (1..n) \ (i..j) : text[m] = "a") =>
                      reply.out = SubSeq(text, i, j)
           /\ (~\E i, j \in 1..n : i < j /\ text[i] = "{" /\ text[j] = "}") =>
                  reply.out = text

\* an object with text before and after it was extracted
C30_Witness ==
    /\ reply.pc = "extracted"
    /\ reply.text = <<"a", "{", "a", "}", "a">>
    /\ reply.out = <<"{", "a", "}">>

\* C31: delete_email and bulk_delete remove from the server only messages
\* whose UIDs were passed; a message that already carried \Deleted and was
\* not passed is still on the server afterwards.
C31_DeletesOnlyPassed ==
    [][\A uids \in SUBSET Messages, answer \in DeleteAnswers :
           (ImapBulkDelete(uids, answer) \/ (\E uid \in uids : uids = {uid} /\ ImapDeleteEmail(uid, answer))) =>
               \A u \in Messages \ uids : mbox.msgs[u] # "gone" => mbox'.msgs[u] # "gone"]_vars

\* C32 (its first half): store_header on a row whose body is cached leaves
\* the body in place: has_email_body is true before and after the call.
C32_RestoreKeepsBody ==
    [][\A k \in CacheKeys :
           (store_header(k) /\ has_email_body(k)) => has_email_body(k)']_vars

\* C33: a message is in the JMAP Sent mailbox only if its EmailSubmission
\* was created; a send_email that returned a failure left no copy there.
C33_SentOnlyIfSubmitted ==
    \A m \in Mails : jmap_sent[m].in_sent => jmap_sent[m].submitted

\* C34: in the script written for a list of rules, a rule with enabled =
\* false contributes comment lines only: no test, no action, no brace.
C34_DisabledOnlyComments ==
    sieve_rt.pc # "rules" =>
        \A i \in 1..Len(sieve_rt.rules) :
            ~sieve_rt.rules[i].enabled =>
                LET lines == RuleLines(sieve_rt.rules[i])
                IN \A j \in 1..Len(lines) : lines[j].kind = "rule"

\* C35: for a folder of N messages that does not change, the pages
\* fetch_headers(folder, k*count, count), k = 0, 1, 2, ..., hold every
\* message exactly once: each of the N sequence numbers is in the range of
\* exactly one page.
C35_PagesPartition ==
    (page.pc = "fetched" /\ page.count >= 1) =>
        LET N == page.total
            range(k) == FetchRange(N, k * page.count, page.count)
            holds(k, n) == ~range(k).empty /\ n \in range(k).begin..range(k).end
        IN \A n \in 1..N : Cardinality({k \in 0..N : holds(k, n)}) = 1

\* C36: storing again an email that is cached with its n attachments leaves
\* n attachments rows for it, one per attachment.
C36_StoreEmailIdempotent ==
    [][\A k \in CacheKeys, n \in 0..MaxAttachments :
           (store_email(k, n) /\ emails[k].present /\ attachments[k] = n) =>
               attachments'[k] = n]_vars

\* C37: when disconnect_all returns, the registry holds no session: the
\* IMAP map and the JMAP map are both empty.
C37_DisconnectAllEmpties ==
    [][\A t \in Tasks :
           (task[t].cmd = "disconnect_all" /\ task'[t] = IdleTask) =>
               /\ \A a \in ImapAccounts : ~imap_clients'[a].present
               /\ \A a \in JmapAccounts : ~jmap_clients'[a]]_vars

\* C38: a JMAP bulk operation that returned a failure has changed none of
\* the listed emails, and one that returned success has changed all of them.
C38_BulkAllOrNothing ==
    /\ jmap_bulk.res = "Err" => jmap_bulk.changed = {}
    /\ jmap_bulk.res = "Ok" =>
           jmap_bulk.changed = {jmap_bulk.email_ids[i] : i \in 1..Len(jmap_bulk.email_ids)}

\* C39: a save_account that nothing interleaves with leaves every entry
\* with another id as it was in the file, and when the file does not parse
\* it does not replace the file.
C39_SaveKeepsOthers ==
    [][\A p \in Writers :
           (/\ ConfigWrite(p, "ok")
            /\ config.writer[p].op = "save"
            /\ config.file = config.writer[p].before) =>
               IF config.file.kind = "garbled" THEN config'.file = config.file
               ELSE \A i \in SavedIds \ {config.writer[p].id} :
                        config'.file.accounts[i] = config.file.accounts[i]]_vars

\* C40: when a mutation is written after a mutation of another id has been
\* written while it ran, and that one returned Ok, the file holds the other
\* mutation's change as well: no update is lost.
C40_NoLostUpdate ==
    [][\A p, q \in Writers :
           (/\ ConfigWrite(p, "ok")
            /\ config.writer[p].overlapped
            /\ config.writer[p].before.kind # "garbled"
            /\ config.writer[q].pc = "idle" /\ config.writer[q].res = "Ok"
            /\ config.writer[q].id # config.writer[p].id) =>
               config'.file.accounts[config.writer[q].id]
                   = config.writer[q].local[config.writer[q].id]]_vars

\* C6: a set_sync_state(folder, u) leaves highest_uid at the larger of u and
\* the value stored before, so the value read never decreases.
C6_HighestUidMonotone ==
    [][\A f \in Folders, u \in 0..MaxHighestUid :
           (set_sync_state(f, u) /\ sync_state[f].present) =>
               sync_state'[f].highest_uid = Max(sync_state[f].highest_uid, u)]_vars

\* C7: a step in which an automatic categorization stores its result leaves
\* every row with is_user_override = true as it was.
C7_OverrideKept ==
    [][(\E ok \in BOOLEAN, c \in CategoryIds, confidence \in Confidences :
            AiResult(ok, c, confidence)) =>
       \A k \in CacheKeys :
           (email_categories[k].present /\ email_categories[k].is_user_override) =>
               email_categories'[k] = email_categories[k]]_vars

\* =====================================================================
\* Specifications
\* =====================================================================
\* the registry and the commands on it, from AppState::default; the cache is
\* left as EmailCache::new creates it
InitRegistry ==
    /\ imap_clients = [a \in ImapAccounts |-> NoClient]
    /\ jmap_clients = [a \in JmapAccounts |-> FALSE]
    /\ imap_lock = FreeLock
    /\ jmap_lock = FreeLock
    /\ task = [t \in Tasks |-> IdleTask]
    /\ pending = <<>>
    /\ stale = [a \in ImapAccounts |-> NotStale]
    /\ emails = [k \in CacheKeys |-> NoEmail]
    /\ attachments = [k \in CacheKeys |-> 0]
    /\ email_categories = [k \in CacheKeys |-> NoCategory]
    /\ categories = SystemCategories
    /\ sync_state = [f \in Folders |-> NoSyncState]
    /\ ai_job = NoJob
    /\ foreign_keys = TRUE
    /\ page = NoPage
    /\ net_op = NoOp
    /\ clear_pc = 0
    /\ imap_server = NoServer
    /\ jmap_sieve = NoSieve
    /\ jmap_session = NoSession
    /\ tool_call = NoToolCall
    /\ cloud_auth = NoAuth
    /\ sieve_rt = NoRoundTrip
    /\ seq_call = NoSeqCall
    /\ retention = NoRetention
    /\ send_call = NoSendCall
    /\ utf7 = NoUtf7
    /\ header = NoHeader
    /\ vault = NoVault
    /\ reply = NoReply
    /\ mbox = NoMbox
    /\ jmap_sent = NoSent
    /\ jmap_bulk = NoBulk
    /\ config = NoConfig

SpecRegistry == InitRegistry /\ [][NextRegistry /\ UNCHANGED <<cacheVars, page, net_op, clear_pc, imap_server, jmap_sieve, jmap_session, tool_call, cloud_auth, sieve_rt, seq_call, retention, send_call, utf7, header, vault, reply, mbox, jmap_sent, jmap_bulk, config>>]_vars

\* the registry with commands that can be dropped at their suspension points
InitCancel ==
    /\ imap_clients = [a \in ImapAccounts |-> NoClient]
    /\ jmap_clients = [a \in JmapAccounts |-> FALSE]
    /\ imap_lock = FreeLock
    /\ jmap_lock = FreeLock
    /\ task = [t \in Tasks |-> IdleTask]
    /\ pending = <<>>
    /\ stale = [a \in ImapAccounts |-> NotStale]
    /\ emails = [k \in CacheKeys |-> NoEmail]
    /\ attachments = [k \in CacheKeys |-> 0]
    /\ email_categories = [k \in CacheKeys |-> NoCategory]
    /\ categories = SystemCategories
    /\ sync_state = [f \in Folders |-> NoSyncState]
    /\ ai_job = NoJob
    /\ foreign_keys = TRUE
    /\ page = NoPage
    /\ net_op = NoOp
    /\ clear_pc = 0
    /\ imap_server = NoServer
    /\ jmap_sieve = NoSieve
    /\ jmap_session = NoSession
    /\ tool_call = NoToolCall
    /\ cloud_auth = NoAuth
    /\ sieve_rt = NoRoundTrip
    /\ seq_call = NoSeqCall
    /\ retention = NoRetention
    /\ send_call = NoSendCall
    /\ utf7 = NoUtf7
    /\ header = NoHeader
    /\ vault = NoVault
    /\ reply = NoReply
    /\ mbox = NoMbox
    /\ jmap_sent = NoSent
    /\ jmap_bulk = NoBulk
    /\ config = NoConfig

SpecCancel == InitCancel /\ [][NextCancel /\ UNCHANGED <<cacheVars, page, net_op, clear_pc, imap_server, jmap_sieve, jmap_session, tool_call, cloud_auth, sieve_rt, seq_call, retention, send_call, utf7, header, vault, reply, mbox, jmap_sent, jmap_bulk, config>>]_vars

\* the cache as EmailCache::new creates it. No PRAGMA foreign_keys is issued:
\* whether foreign keys are enforced is the default of the SQLite library the
\* build links
InitCache ==
    /\ imap_clients = [a \in ImapAccounts |-> NoClient]
    /\ jmap_clients = [a \in JmapAccounts |-> FALSE]
    /\ imap_lock = FreeLock
    /\ jmap_lock = FreeLock
    /\ task = [t \in Tasks |-> IdleTask]
    /\ pending = <<>>
    /\ stale = [a \in ImapAccounts |-> NotStale]
    /\ emails = [k \in CacheKeys |-> NoEmail]
    /\ attachments = [k \in CacheKeys |-> 0]
    /\ email_categories = [k \in CacheKeys |-> NoCategory]
    /\ categories = SystemCategories
    /\ sync_state = [f \in Folders |-> NoSyncState]
    /\ ai_job = NoJob
    /\ foreign_keys \in BOOLEAN
    /\ page = NoPage
    /\ net_op = NoOp
    /\ clear_pc = 0
    /\ imap_server = NoServer
    /\ jmap_sieve = NoSieve
    /\ jmap_session = NoSession
    /\ tool_call = NoToolCall
    /\ cloud_auth = NoAuth
    /\ sieve_rt = NoRoundTrip
    /\ seq_call = NoSeqCall
    /\ retention = NoRetention
    /\ send_call = NoSendCall
    /\ utf7 = NoUtf7
    /\ header = NoHeader
    /\ vault = NoVault
    /\ reply = NoReply
    /\ mbox = NoMbox
    /\ jmap_sent = NoSent
    /\ jmap_bulk = NoBulk
    /\ config = NoConfig

SpecCache == InitCache /\ [][NextCache /\ UNCHANGED <<regVars, page, net_op, clear_pc, imap_server, jmap_sieve, jmap_session, tool_call, cloud_auth, sieve_rt, seq_call, retention, send_call, utf7, header, vault, reply, mbox, jmap_sent, jmap_bulk, config>>]_vars

InitSync ==
    /\ imap_clients = [a \in ImapAccounts |-> NoClient]
    /\ jmap_clients = [a \in JmapAccounts |-> FALSE]
    /\ imap_lock = FreeLock
    /\ jmap_lock = FreeLock
    /\ task = [t \in Tasks |-> IdleTask]
    /\ pending = <<>>
    /\ stale = [a \in ImapAccounts |-> NotStale]
    /\ emails = [k \in CacheKeys |-> NoEmail]
    /\ attachments = [k \in CacheKeys |-> 0]
    /\ email_categories = [k \in CacheKeys |-> NoCategory]
    /\ categories = SystemCategories
    /\ sync_state = [f \in Folders |-> NoSyncState]
    /\ ai_job = NoJob
    /\ foreign_keys \in BOOLEAN
    /\ page = NoPage
    /\ net_op = NoOp
    /\ clear_pc = 0
    /\ imap_server = NoServer
    /\ jmap_sieve = NoSieve
    /\ jmap_session = NoSession
    /\ tool_call = NoToolCall
    /\ cloud_auth = NoAuth
    /\ sieve_rt = NoRoundTrip
    /\ seq_call = NoSeqCall
    /\ retention = NoRetention
    /\ send_call = NoSendCall
    /\ utf7 = NoUtf7
    /\ header = NoHeader
    /\ vault = NoVault
    /\ reply = NoReply
    /\ mbox = NoMbox
    /\ jmap_sent = NoSent
    /\ jmap_bulk = NoBulk
    /\ config = NoConfig

SpecSync == InitSync /\ [][NextSync /\ UNCHANGED <<regVars, page, net_op, clear_pc, imap_server, jmap_sieve, jmap_session, tool_call, cloud_auth, sieve_rt, seq_call, retention, send_call, utf7, header, vault, reply, mbox, jmap_sent, jmap_bulk, config>>]_vars

\* fetch_headers after its SELECT, for every mailbox size and page request
InitFetch ==
    /\ imap_clients = [a \in ImapAccounts |-> NoClient]
    /\ jmap_clients = [a \in JmapAccounts |-> FALSE]
    /\ imap_lock = FreeLock
    /\ jmap_lock = FreeLock
    /\ task = [t \in Tasks |-> IdleTask]
    /\ pending = <<>>
    /\ stale = [a \in ImapAccounts |-> NotStale]
    /\ emails = [k \in CacheKeys |-> NoEmail]
    /\ attachments = [k \in CacheKeys |-> 0]
    /\ email_categories = [k \in CacheKeys |-> NoCategory]
    /\ categories = SystemCategories
    /\ sync_state = [f \in Folders |-> NoSyncState]
    /\ ai_job = NoJob
    /\ foreign_keys = TRUE
    /\ page \in [total : ExistsValues, start : StartValues, count : CountValues,
                 pc : {"selected"}, range : {EmptyRange}]
    /\ net_op = NoOp
    /\ clear_pc = 0
    /\ imap_server = NoServer
    /\ jmap_sieve = NoSieve
    /\ jmap_session = NoSession
    /\ tool_call = NoToolCall
    /\ cloud_auth = NoAuth
    /\ sieve_rt = NoRoundTrip
    /\ seq_call = NoSeqCall
    /\ retention = NoRetention
    /\ send_call = NoSendCall
    /\ utf7 = NoUtf7
    /\ header = NoHeader
    /\ vault = NoVault
    /\ reply = NoReply
    /\ mbox = NoMbox
    /\ jmap_sent = NoSent
    /\ jmap_bulk = NoBulk
    /\ config = NoConfig

SpecFetch == InitFetch /\ [][NextFetch]_vars

\* one network operation, awaited from its start
InitTimeout ==
    /\ imap_clients = [a \in ImapAccounts |-> NoClient]
    /\ jmap_clients = [a \in JmapAccounts |-> FALSE]
    /\ imap_lock = FreeLock
    /\ jmap_lock = FreeLock
    /\ task = [t \in Tasks |-> IdleTask]
    /\ pending = <<>>
    /\ stale = [a \in ImapAccounts |-> NotStale]
    /\ emails = [k \in CacheKeys |-> NoEmail]
    /\ attachments = [k \in CacheKeys |-> 0]
    /\ email_categories = [k \in CacheKeys |-> NoCategory]
    /\ categories = SystemCategories
    /\ sync_state = [f \in Folders |-> NoSyncState]
    /\ ai_job = NoJob
    /\ foreign_keys = TRUE
    /\ page = NoPage
    /\ net_op \in {[channel |-> o.channel, kind |-> o.kind, pc |-> "awaiting", elapsed |-> 0] :
                      o \in NetOps}
    /\ clear_pc = 0
    /\ imap_server = NoServer
    /\ jmap_sieve = NoSieve
    /\ jmap_session = NoSession
    /\ tool_call = NoToolCall
    /\ cloud_auth = NoAuth
    /\ sieve_rt = NoRoundTrip
    /\ seq_call = NoSeqCall
    /\ retention = NoRetention
    /\ send_call = NoSendCall
    /\ utf7 = NoUtf7
    /\ header = NoHeader
    /\ vault = NoVault
    /\ reply = NoReply
    /\ mbox = NoMbox
    /\ jmap_sent = NoSent
    /\ jmap_bulk = NoBulk
    /\ config = NoConfig

SpecTimeout == InitTimeout /\ [][NextTimeout]_vars

\* clear and the commands of other connections on one cache database
InitClear ==
    /\ imap_clients = [a \in ImapAccounts |-> NoClient]
    /\ jmap_clients = [a \in JmapAccounts |-> FALSE]
    /\ imap_lock = FreeLock
    /\ jmap_lock = FreeLock
    /\ task = [t \in Tasks |-> IdleTask]
    /\ pending = <<>>
    /\ stale = [a \in ImapAccounts |-> NotStale]
    /\ emails = [k \in CacheKeys |-> NoEmail]
    /\ attachments = [k \in CacheKeys |-> 0]
    /\ email_categories = [k \in CacheKeys |-> NoCategory]
    /\ categories = SystemCategories
    /\ sync_state = [f \in Folders |-> NoSyncState]
    /\ ai_job = NoJob
    /\ foreign_keys \in BOOLEAN
    /\ page = NoPage
    /\ net_op = NoOp
    /\ clear_pc = 0
    /\ imap_server = NoServer
    /\ jmap_sieve = NoSieve
    /\ jmap_session = NoSession
    /\ tool_call = NoToolCall
    /\ cloud_auth = NoAuth
    /\ sieve_rt = NoRoundTrip
    /\ seq_call = NoSeqCall
    /\ retention = NoRetention
    /\ send_call = NoSendCall
    /\ utf7 = NoUtf7
    /\ header = NoHeader
    /\ vault = NoVault
    /\ reply = NoReply
    /\ mbox = NoMbox
    /\ jmap_sent = NoSent
    /\ jmap_bulk = NoBulk
    /\ config = NoConfig

SpecClear == InitClear /\ [][NextClear /\ UNCHANGED <<regVars, page, net_op, imap_server, jmap_sieve, jmap_session, tool_call, cloud_auth, sieve_rt, seq_call, retention, send_call, utf7, header, vault, reply, mbox, jmap_sent, jmap_bulk, config>>]_vars

\* a session on a server that advertises MOVE or does not, all messages in INBOX
InitMove ==
    /\ imap_clients = [a \in ImapAccounts |-> NoClient]
    /\ jmap_clients = [a \in JmapAccounts |-> FALSE]
    /\ imap_lock = FreeLock
    /\ jmap_lock = FreeLock
    /\ task = [t \in Tasks |-> IdleTask]
    /\ pending = <<>>
    /\ stale = [a \in ImapAccounts |-> NotStale]
    /\ emails = [k \in CacheKeys |-> NoEmail]
    /\ attachments = [k \in CacheKeys |-> 0]
    /\ email_categories = [k \in CacheKeys |-> NoCategory]
    /\ categories = SystemCategories
    /\ sync_state = [f \in Folders |-> NoSyncState]
    /\ ai_job = NoJob
    /\ foreign_keys = FALSE
    /\ page = NoPage
    /\ net_op = NoOp
    /\ clear_pc = 0
    /\ imap_server \in {[NoServer EXCEPT !.advertises_move = b] : b \in BOOLEAN}
    /\ jmap_sieve = NoSieve
    /\ jmap_session = NoSession
    /\ tool_call = NoToolCall
    /\ cloud_auth = NoAuth
    /\ sieve_rt = NoRoundTrip
    /\ seq_call = NoSeqCall
    /\ retention = NoRetention
    /\ send_call = NoSendCall
    /\ utf7 = NoUtf7
    /\ header = NoHeader
    /\ vault = NoVault
    /\ reply = NoReply
    /\ mbox = NoMbox
    /\ jmap_sent = NoSent
    /\ jmap_bulk = NoBulk
    /\ config = NoConfig

SpecMove == InitMove /\ [][NextMove /\ UNCHANGED <<regVars, cacheVars, page, net_op, clear_pc, jmap_sieve, jmap_session, tool_call, cloud_auth, sieve_rt, seq_call, retention, send_call, utf7, header, vault, reply, mbox, jmap_sent, jmap_bulk, config>>]_vars

\* a connected JMAP account with no Sieve script
InitSieve ==
    /\ imap_clients = [a \in ImapAccounts |-> NoClient]
    /\ jmap_clients = [a \in JmapAccounts |-> FALSE]
    /\ imap_lock = FreeLock
    /\ jmap_lock = FreeLock
    /\ task = [t \in Tasks |-> IdleTask]
    /\ pending = <<>>
    /\ stale = [a \in ImapAccounts |-> NotStale]
    /\ emails = [k \in CacheKeys |-> NoEmail]
    /\ attachments = [k \in CacheKeys |-> 0]
    /\ email_categories = [k \in CacheKeys |-> NoCategory]
    /\ categories = SystemCategories
    /\ sync_state = [f \in Folders |-> NoSyncState]
    /\ ai_job = NoJob
    /\ foreign_keys = FALSE
    /\ page = NoPage
    /\ net_op = NoOp
    /\ clear_pc = 0
    /\ imap_server = NoServer
    /\ jmap_sieve = NoSieve
    /\ jmap_session = NoSession
    /\ tool_call = NoToolCall
    /\ cloud_auth = NoAuth
    /\ sieve_rt = NoRoundTrip
    /\ seq_call = NoSeqCall
    /\ retention = NoRetention
    /\ send_call = NoSendCall
    /\ utf7 = NoUtf7
    /\ header = NoHeader
    /\ vault = NoVault
    /\ reply = NoReply
    /\ mbox = NoMbox
    /\ jmap_sent = NoSent
    /\ jmap_bulk = NoBulk
    /\ config = NoConfig

SpecSieve == InitSieve /\ [][NextSieve /\ UNCHANGED <<regVars, cacheVars, page, net_op, clear_pc, imap_server, jmap_session, tool_call, cloud_auth, sieve_rt, seq_call, retention, send_call, utf7, header, vault, reply, mbox, jmap_sent, jmap_bulk, config>>]_vars

\* JmapClient::new: not connected
InitTrust ==
    /\ imap_clients = [a \in ImapAccounts |-> NoClient]
    /\ jmap_clients = [a \in JmapAccounts |-> FALSE]
    /\ imap_lock = FreeLock
    /\ jmap_lock = FreeLock
    /\ task = [t \in Tasks |-> IdleTask]
    /\ pending = <<>>
    /\ stale = [a \in ImapAccounts |-> NotStale]
    /\ emails = [k \in CacheKeys |-> NoEmail]
    /\ attachments = [k \in CacheKeys |-> 0]
    /\ email_categories = [k \in CacheKeys |-> NoCategory]
    /\ categories = SystemCategories
    /\ sync_state = [f \in Folders |-> NoSyncState]
    /\ ai_job = NoJob
    /\ foreign_keys = FALSE
    /\ page = NoPage
    /\ net_op = NoOp
    /\ clear_pc = 0
    /\ imap_server = NoServer
    /\ jmap_sieve = NoSieve
    /\ jmap_session = NoSession
    /\ tool_call = NoToolCall
    /\ cloud_auth = NoAuth
    /\ sieve_rt = NoRoundTrip
    /\ seq_call = NoSeqCall
    /\ retention = NoRetention
    /\ send_call = NoSendCall
    /\ utf7 = NoUtf7
    /\ header = NoHeader
    /\ vault = NoVault
    /\ reply = NoReply
    /\ mbox = NoMbox
    /\ jmap_sent = NoSent
    /\ jmap_bulk = NoBulk
    /\ config = NoConfig

SpecTrust == InitTrust /\ [][NextTrust /\ UNCHANGED <<regVars, cacheVars, page, net_op, clear_pc, imap_server, jmap_sieve, tool_call, cloud_auth, sieve_rt, seq_call, retention, send_call, utf7, header, vault, reply, mbox, jmap_sent, jmap_bulk, config>>]_vars

\* no tool call in flight
InitTool ==
    /\ imap_clients = [a \in ImapAccounts |-> NoClient]
    /\ jmap_clients = [a \in JmapAccounts |-> FALSE]
    /\ imap_lock = FreeLock
    /\ jmap_lock = FreeLock
    /\ task = [t \in Tasks |-> IdleTask]
    /\ pending = <<>>
    /\ stale = [a \in ImapAccounts |-> NotStale]
    /\ emails = [k \in CacheKeys |-> NoEmail]
    /\ attachments = [k \in CacheKeys |-> 0]
    /\ email_categories = [k \in CacheKeys |-> NoCategory]
    /\ categories = SystemCategories
    /\ sync_state = [f \in Folders |-> NoSyncState]
    /\ ai_job = NoJob
    /\ foreign_keys = FALSE
    /\ page = NoPage
    /\ net_op = NoOp
    /\ clear_pc = 0
    /\ imap_server = NoServer
    /\ jmap_sieve = NoSieve
    /\ jmap_session = NoSession
    /\ tool_call = NoToolCall
    /\ cloud_auth = NoAuth
    /\ sieve_rt = NoRoundTrip
    /\ seq_call = NoSeqCall
    /\ retention = NoRetention
    /\ send_call = NoSendCall
    /\ utf7 = NoUtf7
    /\ header = NoHeader
    /\ vault = NoVault
    /\ reply = NoReply
    /\ mbox = NoMbox
    /\ jmap_sent = NoSent
    /\ jmap_bulk = NoBulk
    /\ config = NoConfig

SpecTool == InitTool /\ [][NextTool /\ UNCHANGED <<regVars, cacheVars, page, net_op, clear_pc, imap_server, jmap_sieve, jmap_session, cloud_auth, sieve_rt, seq_call, retention, send_call, utf7, header, vault, reply, mbox, jmap_sent, jmap_bulk, config>>]_vars

\* AuthState::default() and no token file
InitAuth ==
    /\ imap_clients = [a \in ImapAccounts |-> NoClient]
    /\ jmap_clients = [a \in JmapAccounts |-> FALSE]
    /\ imap_lock = FreeLock
    /\ jmap_lock = FreeLock
    /\ task = [t \in Tasks |-> IdleTask]
    /\ pending = <<>>
    /\ stale = [a \in ImapAccounts |-> NotStale]
    /\ emails = [k \in CacheKeys |-> NoEmail]
    /\ attachments = [k \in CacheKeys |-> 0]
    /\ email_categories = [k \in CacheKeys |-> NoCategory]
    /\ categories = SystemCategories
    /\ sync_state = [f \in Folders |-> NoSyncState]
    /\ ai_job = NoJob
    /\ foreign_keys = FALSE
    /\ page = NoPage
    /\ net_op = NoOp
    /\ clear_pc = 0
    /\ imap_server = NoServer
    /\ jmap_sieve = NoSieve
    /\ jmap_session = NoSession
    /\ tool_call = NoToolCall
    /\ cloud_auth = NoAuth
    /\ sieve_rt = NoRoundTrip
    /\ seq_call = NoSeqCall
    /\ retention = NoRetention
    /\ send_call = NoSendCall
    /\ utf7 = NoUtf7
    /\ header = NoHeader
    /\ vault = NoVault
    /\ reply = NoReply
    /\ mbox = NoMbox
    /\ jmap_sent = NoSent
    /\ jmap_bulk = NoBulk
    /\ config = NoConfig

SpecAuth == InitAuth /\ [][NextAuth /\ UNCHANGED <<regVars, cacheVars, page, net_op, clear_pc, imap_server, jmap_sieve, jmap_session, tool_call, sieve_rt, seq_call, retention, send_call, utf7, header, vault, reply, mbox, jmap_sent, jmap_bulk, config>>]_vars

\* any list of at most MaxRules rules
InitRules ==
    /\ imap_clients = [a \in ImapAccounts |-> NoClient]
    /\ jmap_clients = [a \in JmapAccounts |-> FALSE]
    /\ imap_lock = FreeLock
    /\ jmap_lock = FreeLock
    /\ task = [t \in Tasks |-> IdleTask]
    /\ pending = <<>>
    /\ stale = [a \in ImapAccounts |-> NotStale]
    /\ emails = [k \in CacheKeys |-> NoEmail]
    /\ attachments = [k \in CacheKeys |-> 0]
    /\ email_categories = [k \in CacheKeys |-> NoCategory]
    /\ categories = SystemCategories
    /\ sync_state = [f \in Folders |-> NoSyncState]
    /\ ai_job = NoJob
    /\ foreign_keys = FALSE
    /\ page = NoPage
    /\ net_op = NoOp
    /\ clear_pc = 0
    /\ imap_server = NoServer
    /\ jmap_sieve = NoSieve
    /\ jmap_session = NoSession
    /\ tool_call = NoToolCall
    /\ cloud_auth = NoAuth
    /\ sieve_rt \in {[NoRoundTrip EXCEPT !.rules = r] : r \in SeqsUpTo(SieveRules, MaxRules)}
    /\ seq_call = NoSeqCall
    /\ retention = NoRetention
    /\ send_call = NoSendCall
    /\ utf7 = NoUtf7
    /\ header = NoHeader
    /\ vault = NoVault
    /\ reply = NoReply
    /\ mbox = NoMbox
    /\ jmap_sent = NoSent
    /\ jmap_bulk = NoBulk
    /\ config = NoConfig

SpecRules == InitRules /\ [][NextRules /\ UNCHANGED <<regVars, cacheVars, page, net_op, clear_pc, imap_server, jmap_sieve, jmap_session, tool_call, cloud_auth, seq_call, retention, send_call, utf7, header, vault, reply, mbox, jmap_sent, jmap_bulk, config>>]_vars

\* a build with or without overflow checks and any non-empty list of UIDs
InitSequence ==
    /\ imap_clients = [a \in ImapAccounts |-> NoClient]
    /\ jmap_clients = [a \in JmapAccounts |-> FALSE]
    /\ imap_lock = FreeLock
    /\ jmap_lock = FreeLock
    /\ task = [t \in Tasks |-> IdleTask]
    /\ pending = <<>>
    /\ stale = [a \in ImapAccounts |-> NotStale]
    /\ emails = [k \in CacheKeys |-> NoEmail]
    /\ attachments = [k \in CacheKeys |-> 0]
    /\ email_categories = [k \in CacheKeys |-> NoCategory]
    /\ categories = SystemCategories
    /\ sync_state = [f \in Folders |-> NoSyncState]
    /\ ai_job = NoJob
    /\ foreign_keys = FALSE
    /\ page = NoPage
    /\ net_op = NoOp
    /\ clear_pc = 0
    /\ imap_server = NoServer
    /\ jmap_sieve = NoSieve
    /\ jmap_session = NoSession
    /\ tool_call = NoToolCall
    /\ cloud_auth = NoAuth
    /\ sieve_rt = NoRoundTrip
    /\ seq_call \in {[NoSeqCall EXCEPT !.overflow_checks = b, !.uids = u] :
                      b \in BOOLEAN, u \in UidLists}
    /\ retention = NoRetention
    /\ send_call = NoSendCall
    /\ utf7 = NoUtf7
    /\ header = NoHeader
    /\ vault = NoVault
    /\ reply = NoReply
    /\ mbox = NoMbox
    /\ jmap_sent = NoSent
    /\ jmap_bulk = NoBulk
    /\ config = NoConfig

SpecSequence == InitSequence /\ [][NextSequence /\ UNCHANGED <<regVars, cacheVars, page, net_op, clear_pc, imap_server, jmap_sieve, jmap_session, tool_call, cloud_auth, sieve_rt, retention, send_call, utf7, header, vault, reply, mbox, jmap_sent, jmap_bulk, config>>]_vars

\* an empty cache at time 0
InitRetention ==
    /\ imap_clients = [a \in ImapAccounts |-> NoClient]
    /\ jmap_clients = [a \in JmapAccounts |-> FALSE]
    /\ imap_lock = FreeLock
    /\ jmap_lock = FreeLock
    /\ task = [t \in Tasks |-> IdleTask]
    /\ pending = <<>>
    /\ stale = [a \in ImapAccounts |-> NotStale]
    /\ emails = [k \in CacheKeys |-> NoEmail]
    /\ attachments = [k \in CacheKeys |-> 0]
    /\ email_categories = [k \in CacheKeys |-> NoCategory]
    /\ categories = SystemCategories
    /\ sync_state = [f \in Folders |-> NoSyncState]
    /\ ai_job = NoJob
    /\ foreign_keys = FALSE
    /\ page = NoPage
    /\ net_op = NoOp
    /\ clear_pc = 0
    /\ imap_server = NoServer
    /\ jmap_sieve = NoSieve
    /\ jmap_session = NoSession
    /\ tool_call = NoToolCall
    /\ cloud_auth = NoAuth
    /\ sieve_rt = NoRoundTrip
    /\ seq_call = NoSeqCall
    /\ retention = NoRetention
    /\ send_call = NoSendCall
    /\ utf7 = NoUtf7
    /\ header = NoHeader
    /\ vault = NoVault
    /\ reply = NoReply
    /\ mbox = NoMbox
    /\ jmap_sent = NoSent
    /\ jmap_bulk = NoBulk
    /\ config = NoConfig

SpecRetention == InitRetention /\ [][NextRetention /\ UNCHANGED <<regVars, cacheVars, page, net_op, clear_pc, imap_server, jmap_sieve, jmap_session, tool_call, cloud_auth, sieve_rt, seq_call, send_call, utf7, header, vault, reply, mbox, jmap_sent, jmap_bulk, config>>]_vars

\* a server with any of the probed mailboxes
InitSend ==
    /\ imap_clients = [a \in ImapAccounts |-> NoClient]
    /\ jmap_clients = [a \in JmapAccounts |-> FALSE]
    /\ imap_lock = FreeLock
    /\ jmap_lock = FreeLock
    /\ task = [t \in Tasks |-> IdleTask]
    /\ pending = <<>>
    /\ stale = [a \in ImapAccounts |-> NotStale]
    /\ emails = [k \in CacheKeys |-> NoEmail]
    /\ attachments = [k \in CacheKeys |-> 0]
    /\ email_categories = [k \in CacheKeys |-> NoCategory]
    /\ categories = SystemCategories
    /\ sync_state = [f \in Folders |-> NoSyncState]
    /\ ai_job = NoJob
    /\ foreign_keys = FALSE
    /\ page = NoPage
    /\ net_op = NoOp
    /\ clear_pc = 0
    /\ imap_server = NoServer
    /\ jmap_sieve = NoSieve
    /\ jmap_session = NoSession
    /\ tool_call = NoToolCall
    /\ cloud_auth = NoAuth
    /\ sieve_rt = NoRoundTrip
    /\ seq_call = NoSeqCall
    /\ retention = NoRetention
    /\ send_call \in {[NoSendCall EXCEPT !.exists = e] :
                       e \in SUBSET {SentFolders[i] : i \in 1..Len(SentFolders)}}
    /\ utf7 = NoUtf7
    /\ header = NoHeader
    /\ vault = NoVault
    /\ reply = NoReply
    /\ mbox = NoMbox
    /\ jmap_sent = NoSent
    /\ jmap_bulk = NoBulk
    /\ config = NoConfig

SpecSend == InitSend /\ [][NextSend /\ UNCHANGED <<regVars, cacheVars, page, net_op, clear_pc, imap_server, jmap_sieve, jmap_session, tool_call, cloud_auth, sieve_rt, seq_call, retention, utf7, header, vault, reply, mbox, jmap_sent, jmap_bulk, config>>]_vars

\* a LIST response with any name of at most MaxWireLen characters
InitUtf7 ==
    /\ imap_clients = [a \in ImapAccounts |-> NoClient]
    /\ jmap_clients = [a \in JmapAccounts |-> FALSE]
    /\ imap_lock = FreeLock
    /\ jmap_lock = FreeLock
    /\ task = [t \in Tasks |-> IdleTask]
    /\ pending = <<>>
    /\ stale = [a \in ImapAccounts |-> NotStale]
    /\ emails = [k \in CacheKeys |-> NoEmail]
    /\ attachments = [k \in CacheKeys |-> 0]
    /\ email_categories = [k \in CacheKeys |-> NoCategory]
    /\ categories = SystemCategories
    /\ sync_state = [f \in Folders |-> NoSyncState]
    /\ ai_job = NoJob
    /\ foreign_keys = FALSE
    /\ page = NoPage
    /\ net_op = NoOp
    /\ clear_pc = 0
    /\ imap_server = NoServer
    /\ jmap_sieve = NoSieve
    /\ jmap_session = NoSession
    /\ tool_call = NoToolCall
    /\ cloud_auth = NoAuth
    /\ sieve_rt = NoRoundTrip
    /\ seq_call = NoSeqCall
    /\ retention = NoRetention
    /\ send_call = NoSendCall
    /\ utf7 \in {[NoUtf7 EXCEPT !.wire = w] : w \in WireNames}
    /\ header = NoHeader
    /\ vault = NoVault
    /\ reply = NoReply
    /\ mbox = NoMbox
    /\ jmap_sent = NoSent
    /\ jmap_bulk = NoBulk
    /\ config = NoConfig

SpecUtf7 == InitUtf7 /\ [][NextUtf7 /\ UNCHANGED <<regVars, cacheVars, page, net_op, clear_pc, imap_server, jmap_sieve, jmap_session, tool_call, cloud_auth, sieve_rt, seq_call, retention, send_call, header, vault, reply, mbox, jmap_sent, jmap_bulk, config>>]_vars

\* any header value of at most MaxTokens tokens
InitHeader ==
    /\ imap_clients = [a \in ImapAccounts |-> NoClient]
    /\ jmap_clients = [a \in JmapAccounts |-> FALSE]
    /\ imap_lock = FreeLock
    /\ jmap_lock = FreeLock
    /\ task = [t \in Tasks |-> IdleTask]
    /\ pending = <<>>
    /\ stale = [a \in ImapAccounts |-> NotStale]
    /\ emails = [k \in CacheKeys |-> NoEmail]
    /\ attachments = [k \in CacheKeys |-> 0]
    /\ email_categories = [k \in CacheKeys |-> NoCategory]
    /\ categories = SystemCategories
    /\ sync_state = [f \in Folders |-> NoSyncState]
    /\ ai_job = NoJob
    /\ foreign_keys = FALSE
    /\ page = NoPage
    /\ net_op = NoOp
    /\ clear_pc = 0
    /\ imap_server = NoServer
    /\ jmap_sieve = NoSieve
    /\ jmap_session = NoSession
    /\ tool_call = NoToolCall
    /\ cloud_auth = NoAuth
    /\ sieve_rt = NoRoundTrip
    /\ seq_call = NoSeqCall
    /\ retention = NoRetention
    /\ send_call = NoSendCall
    /\ utf7 = NoUtf7
    /\ header \in {[NoHeader EXCEPT !.tokens = t] : t \in HeaderValues}
    /\ vault = NoVault
    /\ reply = NoReply
    /\ mbox = NoMbox
    /\ jmap_sent = NoSent
    /\ jmap_bulk = NoBulk
    /\ config = NoConfig

SpecHeader == InitHeader /\ [][NextHeader /\ UNCHANGED <<regVars, cacheVars, page, net_op, clear_pc, imap_server, jmap_sieve, jmap_session, tool_call, cloud_auth, sieve_rt, seq_call, retention, send_call, utf7, vault, reply, mbox, jmap_sent, jmap_bulk, config>>]_vars

\* nothing pushed yet
InitVault ==
    /\ imap_clients = [a \in ImapAccounts |-> NoClient]
    /\ jmap_clients = [a \in JmapAccounts |-> FALSE]
    /\ imap_lock = FreeLock
    /\ jmap_lock = FreeLock
    /\ task = [t \in Tasks |-> IdleTask]
    /\ pending = <<>>
    /\ stale = [a \in ImapAccounts |-> NotStale]
    /\ emails = [k \in CacheKeys |-> NoEmail]
    /\ attachments = [k \in CacheKeys |-> 0]
    /\ email_categories = [k \in CacheKeys |-> NoCategory]
    /\ categories = SystemCategories
    /\ sync_state = [f \in Folders |-> NoSyncState]
    /\ ai_job = NoJob
    /\ foreign_keys = FALSE
    /\ page = NoPage
    /\ net_op = NoOp
    /\ clear_pc = 0
    /\ imap_server = NoServer
    /\ jmap_sieve = NoSieve
    /\ jmap_session = NoSession
    /\ tool_call = NoToolCall
    /\ cloud_auth = NoAuth
    /\ sieve_rt = NoRoundTrip
    /\ seq_call = NoSeqCall
    /\ retention = NoRetention
    /\ send_call = NoSendCall
    /\ utf7 = NoUtf7
    /\ header = NoHeader
    /\ vault = NoVault
    /\ reply = NoReply
    /\ mbox = NoMbox
    /\ jmap_sent = NoSent
    /\ jmap_bulk = NoBulk
    /\ config = NoConfig

SpecVault == InitVault /\ [][NextVault /\ UNCHANGED <<regVars, cacheVars, page, net_op, clear_pc, imap_server, jmap_sieve, jmap_session, tool_call, cloud_auth, sieve_rt, seq_call, retention, send_call, utf7, header, reply, mbox, jmap_sent, jmap_bulk, config>>]_vars

\* any response of at most MaxText characters
InitReply ==
    /\ imap_clients = [a \in ImapAccounts |-> NoClient]
    /\ jmap_clients = [a \in JmapAccounts |-> FALSE]
    /\ imap_lock = FreeLock
    /\ jmap_lock = FreeLock
    /\ task = [t \in Tasks |-> IdleTask]
    /\ pending = <<>>
    /\ stale = [a \in ImapAccounts |-> NotStale]
    /\ emails = [k \in CacheKeys |-> NoEmail]
    /\ attachments = [k \in CacheKeys |-> 0]
    /\ email_categories = [k \in CacheKeys |-> NoCategory]
    /\ categories = SystemCategories
    /\ sync_state = [f \in Folders |-> NoSyncState]
    /\ ai_job = NoJob
    /\ foreign_keys = FALSE
    /\ page = NoPage
    /\ net_op = NoOp
    /\ clear_pc = 0
    /\ imap_server = NoServer
    /\ jmap_sieve = NoSieve
    /\ jmap_session = NoSession
    /\ tool_call = NoToolCall
    /\ cloud_auth = NoAuth
    /\ sieve_rt = NoRoundTrip
    /\ seq_call = NoSeqCall
    /\ retention = NoRetention
    /\ send_call = NoSendCall
    /\ utf7 = NoUtf7
    /\ header = NoHeader
    /\ vault = NoVault
    /\ reply \in {[NoReply EXCEPT !.text = t] : t \in Texts}
    /\ mbox = NoMbox
    /\ jmap_sent = NoSent
    /\ jmap_bulk = NoBulk
    /\ config = NoConfig

SpecReply == InitReply /\ [][NextReply /\ UNCHANGED <<regVars, cacheVars, page, net_op, clear_pc, imap_server, jmap_sieve, jmap_session, tool_call, cloud_auth, sieve_rt, seq_call, retention, send_call, utf7, header, vault, mbox, jmap_sent, jmap_bulk, config>>]_vars

\* a folder with all its messages, none flagged
InitMbox ==
    /\ imap_clients = [a \in ImapAccounts |-> NoClient]
    /\ jmap_clients = [a \in JmapAccounts |-> FALSE]
    /\ imap_lock = FreeLock
    /\ jmap_lock = FreeLock
    /\ task = [t \in Tasks |-> IdleTask]
    /\ pending = <<>>
    /\ stale = [a \in ImapAccounts |-> NotStale]
    /\ emails = [k \in CacheKeys |-> NoEmail]
    /\ attachments = [k \in CacheKeys |-> 0]
    /\ email_categories = [k \in CacheKeys |-> NoCategory]
    /\ categories = SystemCategories
    /\ sync_state = [f \in Folders |-> NoSyncState]
    /\ ai_job = NoJob
    /\ foreign_keys = FALSE
    /\ page = NoPage
    /\ net_op = NoOp
    /\ clear_pc = 0
    /\ imap_server = NoServer
    /\ jmap_sieve = NoSieve
    /\ jmap_session = NoSession
    /\ tool_call = NoToolCall
    /\ cloud_auth = NoAuth
    /\ sieve_rt = NoRoundTrip
    /\ seq_call = NoSeqCall
    /\ retention = NoRetention
    /\ send_call = NoSendCall
    /\ utf7 = NoUtf7
    /\ header = NoHeader
    /\ vault = NoVault
    /\ reply = NoReply
    /\ mbox = NoMbox
    /\ jmap_sent = NoSent
    /\ jmap_bulk = NoBulk
    /\ config = NoConfig

SpecMbox == InitMbox /\ [][
    NextMbox /\ UNCHANGED <<regVars, cacheVars, page, net_op, clear_pc, imap_server, jmap_sieve, jmap_session, tool_call, cloud_auth, sieve_rt, seq_call, retention, send_call, utf7, header, vault, reply, jmap_sent, jmap_bulk, config>>]_vars

\* nothing sent yet
InitJmapSend ==
    /\ imap_clients = [a \in ImapAccounts |-> NoClient]
    /\ jmap_clients = [a \in JmapAccounts |-> FALSE]
    /\ imap_lock = FreeLock
    /\ jmap_lock = FreeLock
    /\ task = [t \in Tasks |-> IdleTask]
    /\ pending = <<>>
    /\ stale = [a \in ImapAccounts |-> NotStale]
    /\ emails = [k \in CacheKeys |-> NoEmail]
    /\ attachments = [k \in CacheKeys |-> 0]
    /\ email_categories = [k \in CacheKeys |-> NoCategory]
    /\ categories = SystemCategories
    /\ sync_state = [f \in Folders |-> NoSyncState]
    /\ ai_job = NoJob
    /\ foreign_keys = FALSE
    /\ page = NoPage
    /\ net_op = NoOp
    /\ clear_pc = 0
    /\ imap_server = NoServer
    /\ jmap_sieve = NoSieve
    /\ jmap_session = NoSession
    /\ tool_call = NoToolCall
    /\ cloud_auth = NoAuth
    /\ sieve_rt = NoRoundTrip
    /\ seq_call = NoSeqCall
    /\ retention = NoRetention
    /\ send_call = NoSendCall
    /\ utf7 = NoUtf7
    /\ header = NoHeader
    /\ vault = NoVault
    /\ reply = NoReply
    /\ mbox = NoMbox
    /\ jmap_sent = NoSent
    /\ jmap_bulk = NoBulk
    /\ config = NoConfig

SpecJmapSend == InitJmapSend /\ [][
    NextJmapSend /\ UNCHANGED <<regVars, cacheVars, page, net_op, clear_pc, imap_server, jmap_sieve, jmap_session, tool_call, cloud_auth, sieve_rt, seq_call, retention, send_call, utf7, header, vault, reply, mbox, jmap_bulk, config>>]_vars

\* no bulk operation yet
InitBulk ==
    /\ imap_clients = [a \in ImapAccounts |-> NoClient]
    /\ jmap_clients = [a \in JmapAccounts |-> FALSE]
    /\ imap_lock = FreeLock
    /\ jmap_lock = FreeLock
    /\ task = [t \in Tasks |-> IdleTask]
    /\ pending = <<>>
    /\ stale = [a \in ImapAccounts |-> NotStale]
    /\ emails = [k \in CacheKeys |-> NoEmail]
    /\ attachments = [k \in CacheKeys |-> 0]
    /\ email_categories = [k \in CacheKeys |-> NoCategory]
    /\ categories = SystemCategories
    /\ sync_state = [f \in Folders |-> NoSyncState]
    /\ ai_job = NoJob
    /\ foreign_keys = FALSE
    /\ page = NoPage
    /\ net_op = NoOp
    /\ clear_pc = 0
    /\ imap_server = NoServer
    /\ jmap_sieve = NoSieve
    /\ jmap_session = NoSession
    /\ tool_call = NoToolCall
    /\ cloud_auth = NoAuth
    /\ sieve_rt = NoRoundTrip
    /\ seq_call = NoSeqCall
    /\ retention = NoRetention
    /\ send_call = NoSendCall
    /\ utf7 = NoUtf7
    /\ header = NoHeader
    /\ vault = NoVault
    /\ reply = NoReply
    /\ mbox = NoMbox
    /\ jmap_sent = NoSent
    /\ jmap_bulk = NoBulk
    /\ config = NoConfig

SpecBulk == InitBulk /\ [][
    NextBulk /\ UNCHANGED <<regVars, cacheVars, page, net_op, clear_pc, imap_server, jmap_sieve, jmap_session, tool_call, cloud_auth, sieve_rt, seq_call, retention, send_call, utf7, header, vault, reply, mbox, jmap_sent, config>>]_vars

\* no accounts.json yet
InitConfig ==
    /\ imap_clients = [a \in ImapAccounts |-> NoClient]
    /\ jmap_clients = [a \in JmapAccounts |-> FALSE]
    /\ imap_lock = FreeLock
    /\ jmap_lock = FreeLock
    /\ task = [t \in Tasks |-> IdleTask]
    /\ pending = <<>>
    /\ stale = [a \in ImapAccounts |-> NotStale]
    /\ emails = [k \in CacheKeys |-> NoEmail]
    /\ attachments = [k \in CacheKeys |-> 0]
    /\ email_categories = [k \in CacheKeys |-> NoCategory]
    /\ categories = SystemCategories
    /\ sync_state = [f \in Folders |-> NoSyncState]
    /\ ai_job = NoJob
    /\ foreign_keys = FALSE
    /\ page = NoPage
    /\ net_op = NoOp
    /\ clear_pc = 0
    /\ imap_server = NoServer
    /\ jmap_sieve = NoSieve
    /\ jmap_session = NoSession
    /\ tool_call = NoToolCall
    /\ cloud_auth = NoAuth
    /\ sieve_rt = NoRoundTrip
    /\ seq_call = NoSeqCall
    /\ retention = NoRetention
    /\ send_call = NoSendCall
    /\ utf7 = NoUtf7
    /\ header = NoHeader
    /\ vault = NoVault
    /\ reply = NoReply
    /\ mbox = NoMbox
    /\ jmap_sent = NoSent
    /\ jmap_bulk = NoBulk
    /\ config = NoConfig

SpecConfig == InitConfig /\ [][
    NextConfig /\ UNCHANGED <<regVars, cacheVars, page, net_op, clear_pc, imap_server, jmap_sieve, jmap_session, tool_call, cloud_auth, sieve_rt, seq_call, retention, send_call, utf7, header, vault, reply, mbox, jmap_sent, jmap_bulk>>]_vars

=============================================================================
